---- MODULE Spec2Model ----
(***************************************************************************)
(* Send-confirmation correlation engine of bluebubbles-server.             *)
(*                                                                         *)
(* MessageInterface (the send orchestrator) registers a MessagePromise for *)
(* every send, dispatches through AppleScript or the Private API and       *)
(* waits for the record to show up in the iMessage database; QueueService  *)
(* (the outbox scanner) walks the persisted queue on a timer, expires old  *)
(* entries and matches the others against the database.                    *)
(*                                                                         *)
(* Strings the code takes apart (startsWith, endsWith, split, length) are  *)
(* sequences of one-character strings.  Times are milliseconds.            *)
(***************************************************************************)
EXTENDS Integers, Sequences, FiniteSets, TLC

\* ---------------------------------------------------------------- bounds

\* Number of public operations started in one run.
MaxSends == 1

\* Number of rows the iMessage database receives in one run.
MaxRecords == 1

\* The clock advances in steps of TickSeconds seconds.
TickSeconds == 15

\* Operations start within the first MaxTicks ticks; the clock then runs on
\* until every timer has fired and the queue is empty.
MaxTicks == 1

\* Capacity of the event cache.
CacheCapacity == 3

\* Identifiers passed to the event cache on its own, and calls of its add.
MaxCacheIds == 5

MaxAdds == 6

\* Most calls of a scripted getData that return nothing.
MaxNulls == 3

\* Longest interval between two calls of getData, in the awaiter's time unit.
MaxInterval == 2

\* Longest wait given to one call of resultAwaiter, in the same unit.
MaxDeadline == 6

\* ----------------------------------------------------- program constants

\* getEntries: "longer than 1 minute" (now - entry.dateCreated > 1000 * 60).
MaxAgeMs == 1000 * 60

\* maxWaitMs of every resultAwaiter call, and the MessagePromise timeout.
MaxWaitMs == 30000

\* getEntries: limit: 3.
QueryLimit == 3

TickMs == 1000 * TickSeconds

MaxClockMs == MaxTicks * TickMs

\* The poll interval of resultAwaiter and the scanner's pollFrequency.
PollIntervalMs == TickMs

\* ---------------------------------------------------------------- strings

Arrow == <<"-", ">">>

\* invisibleMediaChar: the one-character text of an attachment-only message.
InvisibleMediaChar == <<"#">>

\* String.prototype.startsWith
StartsWith(s, p) == Len(p) <= Len(s) /\ SubSeq(s, 1, Len(p)) = p

\* String.prototype.endsWith
EndsWith(s, p) == Len(p) <= Len(s) /\ SubSeq(s, Len(s) - Len(p) + 1, Len(s)) = p

\* Index of the first occurrence of sep in s at or after position i, 0 if none.
RECURSIVE IndexOf(_, _, _)
IndexOf(s, sep, i) ==
    IF i + Len(sep) - 1 > Len(s) THEN 0
    ELSE IF SubSeq(s, i, i + Len(sep) - 1) = sep THEN i
    ELSE IndexOf(s, sep, i + 1)

\* String.prototype.split(sep): the sequence of pieces.
RECURSIVE Split(_, _)
Split(s, sep) ==
    LET k == IndexOf(s, sep, 1)
    IN  IF k = 0 THEN <<s>>
        ELSE <<SubSeq(s, 1, k - 1)>> \o Split(SubSeq(s, k + Len(sep), Len(s)), sep)

\* ----------------------------------------------------------------- inputs

Chats == {"X", "Y"}

\* The chatGuid of an operation; "" stands for a missing chat GUID (!chatGuid).
ChatInputs == {"X", ""}

Texts == {<<"h", "i">>, <<"y", "o">>}

Methods == {"apple-script", "private-api", "sms"}

\* The tempGuid of the s-th operation.
TempGuidOf(s) == <<"t", IF s = 1 THEN "1" ELSE IF s = 2 THEN "2" ELSE "3">>

SendIds == 1 .. MaxSends

\* GUID the Private API returns for the s-th operation.
PrivateGuid(s) == 100 + s

NoGuid == 0

VARIABLES
    clock,      \* wall clock, ms
    store,      \* the iMessage database: rows in date order
    sends,      \* the public operations: inputs, position, outcome
    promises,   \* the MessagePromise of each operation
    registry,   \* messageManager.promises: operations in order of add()
    entries,    \* the persisted queue (repo.queue()), in persisted order
    tasks,      \* per-entry callbacks of getEntries still in flight
    lastTick,   \* time of the last getEntries call
    cache,      \* the event cache (guids, oldest first)
    events,     \* what QueueService emitted, in order
    aw,         \* one call of resultAwaiter with a scripted getData
    msg,        \* the row an edit, unsend or notify is about
    mut,        \* one edit, unsend or notify call: inputs, position, outcome
    adds,       \* the identifiers passed to the event cache's add, in order
    server,     \* the Private API's status and the macOS version the server runs on
    observer,   \* the change listener of the iMessage database: position and output
    context,    \* one HTTP request on its way through AuthMiddleware, and the token table
    app,        \* main.ts: isHandlingExit, the server's isStopping, exit handlers in flight
    repo        \* ServerRepository: the config table, the config cache, one setConfig call

coreVars == <<clock, store, sends, promises, registry, entries, tasks, lastTick, cache, events>>

vars == <<clock, store, sends, promises, registry, entries, tasks, lastTick, cache, events,
          aw, msg, mut, adds, server, observer, context, app, repo>>

\* The request context, the application shell and the configuration store.
shellVars == <<context, app, repo>>

\* ------------------------------------------------------------------ state

\* The Message a reaction is sent on, before any is given.
NoMessage == [text |-> <<>>, attachments |-> <<>>, runs |-> <<>>]

IdleSend ==
    [op |-> "none", chat |-> "", text |-> <<>>, method |-> "", pc |-> "idle",
     error |-> "none", result |-> NoGuid, identifier |-> NoGuid,
     waited |-> 0, nextPoll |-> 0, startedAt |-> 0, dispatched |-> FALSE,
     name |-> <<>>, isAudioMessage |-> FALSE, filePath |-> <<>>, copy |-> "none",
     reaction |-> <<>>, target |-> NoMessage, partIndex |-> 0, parts |-> <<>>]

NoPromise ==
    [chat |-> "", text |-> <<>>, isAttachment |-> FALSE, createdAt |-> 0,
     state |-> "none", value |-> NoGuid]

\* An entry a previous run of the server left in the persisted queue.
PersistedAgeMs == MaxAgeMs - TickMs

PersistedEntry ==
    [id |-> 0, chat |-> "X", text |-> <<"h", "i">>, tempGuid |-> <<"t", "0">>,
     dateCreated |-> 0 - PersistedAgeMs]

\* No row: what getMessage returns for a guid the database does not hold.
NullRow == [present |-> FALSE, dateEdited |-> 0, didNotifyRecipient |-> FALSE]

IdleAwaiter ==
    [nulls |-> 0, interval |-> 0, maxWaitMs |-> 0, calls |-> 0,
     waited |-> 0, status |-> "idle", value |-> NoGuid]

IdleMut ==
    [op |-> "none", pc |-> "idle", error |-> "none", baseline |-> 0, waited |-> 0,
     dispatched |-> FALSE, fetched |-> NullRow, result |-> NullRow]

\* The variables a specification does not use stay as they are here.
AwaiterUnused == aw = IdleAwaiter

LogUnused == adds = <<>>

\* The server every specification but the one of the preconditions runs on:
\* the Private API is enabled and connected, on a recent macOS.
ReadyServer == [status |-> "ok", isMinVentura |-> TRUE, isMinMonterey |-> TRUE]

ServerUnused == server = ReadyServer

\* The change listener before its first tick: it starts at time 0 and has
\* processed nothing.
IdleObserver ==
    [last |-> 0 - 1, tick |-> 0 - 1, pc |-> "idle", rows |-> <<>>, batch |-> {},
     emitted |-> <<>>, failures |-> 0]

ObserverUnused == observer = IdleObserver

\* A header or parameter that was not sent, a lookup that found nothing.
Absent == [present |-> FALSE, value |-> <<>>]

Present(v) == [present |-> TRUE, value |-> v]

\* A request the middleware has not seen yet; db is the token table.
IdleContext ==
    [pc |-> "idle", authorization |-> Absent, params |-> Absent, tokenValue |-> <<>>,
     hasEnded |-> FALSE, auth |-> Absent, responses |-> <<>>, db |-> {}]

AuthUnused == context = IdleContext

\* main.ts after start: let isHandlingExit = false, a server that is not
\* stopping, no exit event so far.
\* stopCalls: the calls of Server().stopServices() the exit handler made, each
\* with the isStopping it was made under; stopping: those still awaited.
IdleApp ==
    [platform |-> "darwin", stopSetsIsStopping |-> FALSE, isHandlingExit |-> FALSE,
     isStopping |-> FALSE, stopping |-> 0, stopCalls |-> <<>>, exited |-> FALSE,
     fired |-> <<>>]

ExitUnused == app = IdleApp

\* A config value as the caller sees it: a boolean b, a number n (a Date as
\* its milliseconds) or a string s; null is what getConfig returns for a name
\* it does not have.
NullValue == [type |-> "null", b |-> FALSE, n |-> 0, s |-> <<>>]

\* A ServerRepository right after construction: config = {}, an empty table,
\* no setConfig so far. before is the cache as the last setConfig found it.
EmptyRepo ==
    [db |-> <<>>, config |-> <<>>, before |-> <<>>, calls |-> 0,
     call |-> [pc |-> "idle", name |-> "", value |-> NullValue, saniVal |-> <<>>]]

ConfigUnused == repo = EmptyRepo

MutUnused == msg = NullRow /\ mut = IdleMut

CoreUnused ==
    /\ clock = 0
    /\ store = <<>>
    /\ sends = [s \in SendIds |-> IdleSend]
    /\ promises = [s \in SendIds |-> NoPromise]
    /\ registry = <<>>
    /\ entries = <<>>
    /\ tasks = {}
    /\ lastTick = -1
    /\ cache = <<>>
    /\ events = <<>>

Init ==
    /\ LogUnused
    /\ ServerUnused
    /\ ObserverUnused
    /\ AuthUnused
    /\ ExitUnused
    /\ ConfigUnused
    /\ AwaiterUnused
    /\ MutUnused
    /\ clock = 0
    /\ store = <<>>
    /\ sends = [s \in SendIds |-> IdleSend]
    /\ promises = [s \in SendIds |-> NoPromise]
    /\ registry = <<>>
    /\ entries \in {<<>>, <<PersistedEntry>>}
    /\ tasks = {}
    /\ lastTick = -1
    /\ cache = <<>>
    /\ events = <<>>

\* -------------------------------------------------------------- the store

\* iMessageRepo.getMessage(guid): the row with that guid, NoGuid if absent.
HasMessage(guid) == \E i \in 1 .. Len(store) : store[i].guid = guid

GetMessage(guid) == IF HasMessage(guid) THEN guid ELSE NoGuid

RowOf(guid) == store[CHOOSE i \in 1 .. Len(store) : store[i].guid = guid]

\* ---------------------------------------------------------- the event cache

\* EventCache.add: idempotent; beyond capacity the oldest guid is dropped.
\* A cache that counts a repeated add as a new use of the identifier.
CacheAddRefresh(c, guid) ==
    LET others == SelectSeq(c, LAMBDA x : x # guid)
    IN  IF Len(others) < CacheCapacity THEN Append(others, guid)
        ELSE Append(Tail(others), guid)

CacheAdd(c, guid) ==
    IF \E i \in 1 .. Len(c) : c[i] = guid THEN c
    ELSE IF Len(c) < CacheCapacity THEN Append(c, guid)
    ELSE Append(Tail(c), guid)

CacheHas(c, guid) == \E i \in 1 .. Len(c) : c[i] = guid

\* ------------------------------------------------- the expectation registry

\* A registry lookup that also finds promises already settled.
PendingForAnyState(proms, reg, chat, text, isAttachment) ==
    {i \in 1 .. Len(reg) :
        /\ proms[reg[i]].state # "none"
        /\ proms[reg[i]].chat = chat
        /\ proms[reg[i]].text = text
        /\ proms[reg[i]].isAttachment = isAttachment}

\* Positions of the registry holding a pending promise for (chat, text).
PendingFor(proms, reg, chat, text, isAttachment) ==
    {i \in 1 .. Len(reg) :
        /\ proms[reg[i]].state = "pending"
        /\ proms[reg[i]].chat = chat
        /\ proms[reg[i]].text = text
        /\ proms[reg[i]].isAttachment = isAttachment}

Min(S) == CHOOSE x \in S : \A y \in S : x <= y

\* MessagePromise.resolve: the promise is fulfilled with the record.
PromiseResolve(p, guid) ==
    [p EXCEPT !.state = "resolved", !.value = guid]

\* MessagePromise.reject (its own timeout): settles a pending promise, once.
PromiseReject(p) ==
    IF p.state = "pending" THEN [p EXCEPT !.state = "rejected"] ELSE p

\* The manager's resolve: the first pending promise with that key, if any.
RegistryResolve(proms, reg, chat, text, isAttachment, guid) ==
    LET found == PendingFor(proms, reg, chat, text, isAttachment)
    IN  IF found = {} THEN proms
        ELSE LET s == reg[Min(found)]
             IN  [proms EXCEPT ![s] = PromiseResolve(proms[s], guid)]

\* ------------------------------------------------------------ the scanner

\* entry.text.startsWith(entry.tempGuid): the entry is an attachment.
IsAttachmentEntry(e) == StartsWith(e.text, e.tempGuid)

\* entry.text.split("->")[1]; <<>> stands for undefined.
EntryAttachmentName(e) ==
    LET parts == Split(e.text, Arrow)
    IN  IF Len(parts) >= 2 THEN parts[2] ELSE <<>>

\* A where clause that forgets the text condition.
WhereMatchesAnyText(e, r) ==
    /\ r.fromMe
    /\ IsAttachmentEntry(e) =>
          /\ Len(r.text) = 1
          /\ r.transferName = EntryAttachmentName(e)

\* The where clause built for an entry, applied to one row.
WhereMatches(e, r) ==
    /\ r.fromMe
    /\ IF IsAttachmentEntry(e)
       THEN /\ Len(r.text) = 1
            /\ EntryAttachmentName(e) # <<>>
            /\ r.transferName = EntryAttachmentName(e)
       ELSE r.text = e.text

\* Rows of getMessages({chatGuid, after, before, sort: "ASC", where}).
Candidates(e, now) ==
    {i \in 1 .. Len(store) :
        /\ store[i].chat = e.chat
        /\ store[i].date >= e.dateCreated
        /\ store[i].date <= now
        /\ WhereMatches(e, store[i])}

\* The first n members of a set of positions, in ascending order.
RECURSIVE FirstN(_, _)
FirstN(S, n) ==
    IF S = {} \/ n = 0 THEN <<>>
    ELSE <<Min(S)>> \o FirstN(S \ {Min(S)}, n - 1)

\* getMessages with limit: 3: the guids of the matches, in date order.
MatchesOf(e, now) ==
    LET idx == FirstN(Candidates(e, now), QueryLimit)
    IN  [k \in 1 .. Len(idx) |-> store[idx[k]].guid]

\* The correlation key of an entry: its chat and its text or attachment name.
EntryFingerprint(e) == IF IsAttachmentEntry(e) THEN EntryAttachmentName(e) ELSE e.text

\* matches.forEach without the cache.add.
CacheAddNone(c, guids) == c

\* matches.forEach, synchronous part: cache.add(match.guid) for every match.
RECURSIVE CacheAddAll(_, _)
CacheAddAll(c, guids) ==
    IF guids = <<>> THEN c
    ELSE CacheAddAll(CacheAdd(c, Head(guids)), Tail(guids))

\* A message-match listener that resolves nothing.
ResolveNone(proms, reg, e, guids) == proms

\* The message-match listener: resolve the registry for every match, in order.
RECURSIVE ResolveAll(_, _, _, _)
ResolveAll(proms, reg, e, guids) ==
    IF guids = <<>> THEN proms
    ELSE ResolveAll(
            RegistryResolve(proms, reg, e.chat, EntryFingerprint(e),
                            IsAttachmentEntry(e), Head(guids)),
            reg, e, Tail(guids))

MatchEvents(e, guids) ==
    [k \in 1 .. Len(guids) |->
        [type |-> "message-match", entry |-> e.id, guid |-> guids[k]]]

\* The payload of message-timeout is the entry itself.
TimeoutEvent(e) ==
    [type |-> "message-timeout", entry |-> e.id, guid |-> NoGuid]

\* A remove that leaves the row in the table.
RemoveEntryNever(es, id) == es

\* repo.remove(entry)
RemoveEntry(es, id) == SelectSeq(es, LAMBDA x : x.id # id)

\* getEntries expiring an entry as soon as it is one minute old.
GetEntriesAtMaxAge ==
    /\ lastTick < clock
    /\ lastTick' = clock
    /\ tasks' = tasks \cup
          {[entry |-> entries[i], now |-> clock,
            pc |-> IF clock - entries[i].dateCreated >= MaxAgeMs
                   THEN "expire" ELSE "query"] : i \in 1 .. Len(entries)}
    /\ UNCHANGED <<clock, store, sends, promises, registry, entries, cache, events>>

\* getEntries up to the first await of every callback: the snapshot of the
\* queue, and per entry either the expiry branch or the match query.
GetEntries ==
    /\ lastTick < clock
    /\ lastTick' = clock
    /\ tasks' = tasks \cup
          {[entry |-> entries[i], now |-> clock,
            pc |-> IF clock - entries[i].dateCreated > MaxAgeMs
                   THEN "expire" ELSE "query"] : i \in 1 .. Len(entries)}
    /\ UNCHANGED <<clock, store, sends, promises, registry, entries, cache, events>>

\* Expiry branch: await repo.remove(entry); emit("message-timeout", entry).
ExpireEntry(t) ==
    /\ t \in tasks /\ t.pc = "expire"
    /\ entries' = RemoveEntry(entries, t.entry.id)
    /\ events' = Append(events, TimeoutEvent(t.entry))
    /\ tasks' = tasks \ {t}
    /\ UNCHANGED <<clock, store, sends, promises, registry, lastTick, cache>>

\* The query returns: for every match cache.add, emit("message-match"), and
\* the removal of the entry is started.
QueryReturn(t) ==
    /\ t \in tasks /\ t.pc = "query"
    /\ LET guids == MatchesOf(t.entry, t.now)
       IN  /\ cache' = CacheAddAll(cache, guids)
           /\ events' = events \o MatchEvents(t.entry, guids)
           /\ promises' = ResolveAll(promises, registry, t.entry, guids)
           /\ tasks' = IF guids = <<>> THEN tasks \ {t}
                       ELSE (tasks \ {t}) \cup {[t EXCEPT !.pc = "remove"]}
    /\ UNCHANGED <<clock, store, sends, registry, entries, lastTick>>

\* await repo.remove(entry) after a match.
RemoveMatched(t) ==
    /\ t \in tasks /\ t.pc = "remove"
    /\ entries' = RemoveEntry(entries, t.entry.id)
    /\ tasks' = tasks \ {t}
    /\ UNCHANGED <<clock, store, sends, promises, registry, lastTick, cache, events>>

\* ------------------------------------------------------- the orchestrator

Started == {s \in SendIds : sends[s].pc # "idle"}

\* Operations start in order, within the first MaxTicks ticks.
CanStart(s) ==
    /\ sends[s].pc = "idle"
    /\ \A r \in SendIds : r < s => sends[r].pc # "idle"
    /\ clock <= MaxClockMs

Fail(snd, err) == [snd EXCEPT !.pc = "failed", !.error = err]

Succeed(snd, guid) == [snd EXCEPT !.pc = "done", !.result = guid]

NewPromise(chat, text, isAttachment) ==
    [chat |-> chat, text |-> text, isAttachment |-> isAttachment,
     createdAt |-> clock, state |-> "pending", value |-> NoGuid]

\* A sendMessageSync that creates its MessagePromise and leaves out
\* messageManager.add.
SendMessageSyncUnregistered(s, chat, text, method) ==
    /\ CanStart(s)
    /\ LET snd == [IdleSend EXCEPT !.op = "text", !.chat = chat, !.text = text,
                                   !.method = method, !.startedAt = clock]
       IN  IF chat = ""
           THEN /\ sends' = [sends EXCEPT ![s] = Fail(snd, "validation")]
                /\ UNCHANGED <<promises, registry>>
           ELSE /\ promises' = [promises EXCEPT ![s] = NewPromise(chat, text, FALSE)]
                /\ UNCHANGED registry
                /\ sends' = [sends EXCEPT ![s] =
                      IF method = "apple-script" THEN [snd EXCEPT !.pc = "dispatch"]
                      ELSE IF method = "private-api" THEN [snd EXCEPT !.pc = "papi"]
                      ELSE Fail(snd, "invalid-method")]
    /\ UNCHANGED <<clock, store, entries, tasks, lastTick, cache, events>>

\* sendMessageSync up to its first await: the chat check, the MessagePromise
\* and messageManager.add, then the branch on the method.
SendMessageSync(s, chat, text, method) ==
    /\ CanStart(s)
    /\ LET snd == [IdleSend EXCEPT !.op = "text", !.chat = chat, !.text = text,
                                   !.method = method, !.startedAt = clock]
       IN  IF chat = ""
           THEN /\ sends' = [sends EXCEPT ![s] = Fail(snd, "validation")]
                /\ UNCHANGED <<promises, registry>>
           ELSE /\ promises' = [promises EXCEPT ![s] = NewPromise(chat, text, FALSE)]
                /\ registry' = Append(registry, s)
                /\ sends' = [sends EXCEPT ![s] =
                      IF method = "apple-script" THEN [snd EXCEPT !.pc = "dispatch"]
                      ELSE IF method = "private-api" THEN [snd EXCEPT !.pc = "papi"]
                      ELSE Fail(snd, "invalid-method")]
    /\ UNCHANGED <<clock, store, entries, tasks, lastTick, cache, events>>

\* The queue entry the AppleScript dispatch leaves behind.
NewEntry(s, chat, text) ==
    [id |-> s, chat |-> chat, text |-> text, tempGuid |-> TempGuidOf(s),
     dateCreated |-> clock]

\* await ActionHandler.sendMessage(chatGuid, message, null): the command is
\* handed to the automation channel, or the call throws.
ActionHandlerSendMessage(s, ok) ==
    /\ sends[s].pc = "dispatch"
    /\ IF ok
       THEN /\ entries' = Append(entries, NewEntry(s, sends[s].chat, sends[s].text))
            /\ sends' = [sends EXCEPT ![s].pc = "await", ![s].dispatched = TRUE]
       ELSE /\ sends' = [sends EXCEPT ![s] = Fail(sends[s], "dispatch")]
            /\ UNCHANGED entries
    /\ UNCHANGED <<clock, store, promises, registry, tasks, lastTick, cache, events>>

\* sentMessage = await awaiter.promise
AwaitPromise(s) ==
    /\ sends[s].pc = "await"
    /\ promises[s].state \in {"resolved", "rejected"}
    /\ sends' = [sends EXCEPT ![s] =
          IF promises[s].state = "resolved"
          THEN Succeed(sends[s], promises[s].value)
          ELSE Fail(sends[s], "timeout")]
    /\ UNCHANGED <<clock, store, promises, registry, entries, tasks, lastTick, cache, events>>

\* A MessagePromise whose timer settles nothing.
PromiseTimeoutNever(s) ==
    /\ promises[s].state = "pending"
    /\ clock >= promises[s].createdAt + MaxWaitMs
    /\ UNCHANGED <<clock, store, sends, promises, registry, entries, tasks, lastTick, cache, events>>

\* The MessagePromise's own timer.
PromiseTimeout(s) ==
    /\ promises[s].state = "pending"
    /\ clock >= promises[s].createdAt + MaxWaitMs
    /\ promises' = [promises EXCEPT ![s] = PromiseReject(promises[s])]
    /\ UNCHANGED <<clock, store, sends, registry, entries, tasks, lastTick, cache, events>>

\* sendMessagePrivateApi up to the poll: checkPrivateApiStatus, the send and
\* the check of the identifier it returned.
SendMessagePrivateApi(s, status, identifier) ==
    /\ sends[s].pc = "papi"
    /\ sends' = [sends EXCEPT ![s] =
          IF status # "ok" THEN Fail(sends[s], "precondition")
          ELSE IF identifier = NoGuid
               THEN [Fail(sends[s], "dispatch") EXCEPT !.dispatched = TRUE]
          ELSE [sends[s] EXCEPT !.pc = "poll", !.identifier = identifier,
                                !.dispatched = TRUE, !.waited = 0,
                                !.nextPoll = clock]]
    /\ UNCHANGED <<clock, store, promises, registry, entries, tasks, lastTick, cache, events>>

\* An awaiter that gives up after the first empty fetch.
ResultAwaiterOutcomeOneShot(keepLooping, waited, maxWaitMs) ==
    IF ~keepLooping THEN "return" ELSE "timeout"

\* One round of resultAwaiter: what it does with the data just fetched.
\* keepLooping: the loop conditions say the data is not the awaited one.
ResultAwaiterOutcome(keepLooping, waited, maxWaitMs) ==
    IF ~keepLooping THEN "return"
    ELSE IF waited >= maxWaitMs THEN "timeout"
    ELSE "sleep"

\* What resultAwaiter hands back: the data that ended the loop, and nothing
\* when the wait ran out.
ResultAwaiterValue(outcome, data, nothing) ==
    IF outcome = "return" THEN data ELSE nothing

\* The default dataLoopCondition: no data.
DataMissing(data) == data = NoGuid

\* The poll of sendMessagePrivateApi without the check of retMessage.
PrivateApiPollUnchecked(s, fetchOk) ==
    /\ sends[s].pc = "poll"
    /\ sends[s].op = "text"
    /\ clock >= sends[s].nextPoll
    /\ LET data == IF fetchOk THEN GetMessage(sends[s].identifier) ELSE NoGuid
           outcome == ResultAwaiterOutcome(DataMissing(data), sends[s].waited, MaxWaitMs)
           retMessage == ResultAwaiterValue(outcome, data, NoGuid)
       IN  sends' = [sends EXCEPT ![s] =
              IF outcome = "sleep"
              THEN [sends[s] EXCEPT !.waited = @ + PollIntervalMs,
                                    !.nextPoll = clock + PollIntervalMs]
              ELSE Succeed(sends[s], retMessage)]
    /\ UNCHANGED <<clock, store, promises, registry, entries, tasks, lastTick, cache, events>>

\* A poll that hands a failed getMessage on to the caller.
PrivateApiPollSurfacing(s, fetchOk) ==
    /\ sends[s].pc = "poll"
    /\ sends[s].op = "text"
    /\ clock >= sends[s].nextPoll
    /\ LET data == GetMessage(sends[s].identifier)
           outcome == ResultAwaiterOutcome(DataMissing(data), sends[s].waited, MaxWaitMs)
           retMessage == ResultAwaiterValue(outcome, data, NoGuid)
       IN  sends' = [sends EXCEPT ![s] =
              IF ~fetchOk THEN Fail(sends[s], "fetch")
              ELSE IF outcome = "sleep"
              THEN [sends[s] EXCEPT !.waited = @ + PollIntervalMs,
                                    !.nextPoll = clock + PollIntervalMs]
              ELSE IF retMessage = NoGuid THEN Fail(sends[s], "timeout")
              ELSE Succeed(sends[s], retMessage)]
    /\ UNCHANGED <<clock, store, promises, registry, entries, tasks, lastTick, cache, events>>

\* The poll of sendMessagePrivateApi: getMessage(result.identifier), and after
\* the awaiter the check if (!retMessage) throw.
PrivateApiPoll(s, fetchOk) ==
    /\ sends[s].pc = "poll"
    /\ sends[s].op = "text"
    /\ clock >= sends[s].nextPoll
    /\ LET data == IF fetchOk THEN GetMessage(sends[s].identifier) ELSE NoGuid
           outcome == ResultAwaiterOutcome(DataMissing(data), sends[s].waited, MaxWaitMs)
           retMessage == ResultAwaiterValue(outcome, data, NoGuid)
       IN  sends' = [sends EXCEPT ![s] =
              IF outcome = "sleep"
              THEN [sends[s] EXCEPT !.waited = @ + PollIntervalMs,
                                    !.nextPoll = clock + PollIntervalMs]
              ELSE IF retMessage = NoGuid THEN Fail(sends[s], "timeout")
              ELSE Succeed(sends[s], retMessage)]
    /\ UNCHANGED <<clock, store, promises, registry, entries, tasks, lastTick, cache, events>>

\* ------------------------------------------------------- the environment

NewRow(guid, chat, text, fromMe, transferName, isSent) ==
    [guid |-> guid, chat |-> chat, text |-> text, fromMe |-> fromMe,
     date |-> clock, transferName |-> transferName, isSent |-> isSent]

FreshGuid == Len(store) + 1

\* A row appears in the iMessage database.
StoreInsert(chat, text, fromMe, transferName) ==
    /\ Len(store) < MaxRecords
    /\ store' = Append(store, NewRow(FreshGuid, chat, text, fromMe, transferName, TRUE))
    /\ UNCHANGED <<clock, sends, promises, registry, entries, tasks, lastTick, cache, events>>

\* The message a Private API send announced appears in the database.
PrivateApiDeliver(s) ==
    /\ sends[s].identifier # NoGuid
    /\ ~HasMessage(sends[s].identifier)
    /\ Len(store) < MaxRecords
    /\ store' = Append(store, NewRow(sends[s].identifier, sends[s].chat,
                                     sends[s].text, TRUE, <<>>, TRUE))
    /\ UNCHANGED <<clock, sends, promises, registry, entries, tasks, lastTick, cache, events>>

\* sendAttachmentSync after sendAttachmentPrivateApi returned: it goes on at
\* once when the row says isSent, and when the MessagePromise settles if not.
ConfirmReady(s) ==
    \/ RowOf(sends[s].result).isSent
    \/ promises[s].state # "pending"

\* Timers that are due fire, and continuations that are ready run, before
\* time moves on; a scanner callback outlives at most one tick.
Quiescent ==
    /\ lastTick = clock
    /\ \A t \in tasks : t.now = clock
    /\ \A s \in SendIds :
          /\ ~(promises[s].state = "pending" /\ clock >= promises[s].createdAt + MaxWaitMs)
          /\ sends[s].pc \notin {"start", "dispatch", "papi", "react", "multipart"}
          /\ ~(sends[s].pc = "fallback" /\ promises[s].state # "pending")
          /\ ~(sends[s].pc = "await" /\ promises[s].state # "pending")
          /\ ~(sends[s].pc = "confirm" /\ ConfirmReady(s))
          /\ ~(sends[s].pc = "poll" /\ clock >= sends[s].nextPoll)

\* Something is still waiting for time to pass.
Pending ==
    \/ entries # <<>>
    \/ tasks # {}
    \/ \E s \in SendIds : promises[s].state = "pending"
    \/ \E s \in SendIds : sends[s].pc \notin {"idle", "done", "failed"}

Advance ==
    /\ clock < MaxClockMs \/ Pending
    /\ Quiescent
    /\ clock' = clock + TickMs
    /\ UNCHANGED <<store, sends, promises, registry, entries, tasks, lastTick, cache, events>>

CoreNext ==
    \/ \E s \in SendIds, chat \in ChatInputs, text \in Texts, method \in Methods :
          SendMessageSync(s, chat, text, method)
    \/ \E s \in SendIds, ok \in BOOLEAN : ActionHandlerSendMessage(s, ok)
    \/ \E s \in SendIds : AwaitPromise(s)
    \/ \E s \in SendIds : PromiseTimeout(s)
    \/ \E s \in SendIds, status \in {"ok", "disabled"} :
          \E identifier \in {NoGuid, PrivateGuid(s)} :
             SendMessagePrivateApi(s, status, identifier)
    \/ \E s \in SendIds, fetchOk \in BOOLEAN : PrivateApiPoll(s, fetchOk)
    \/ GetEntries
    \/ \E t \in tasks : ExpireEntry(t)
    \/ \E t \in tasks : QueryReturn(t)
    \/ \E t \in tasks : RemoveMatched(t)
    \/ \E chat \in Chats, text \in Texts, fromMe \in BOOLEAN :
          StoreInsert(chat, text, fromMe, <<>>)
    \/ \E s \in SendIds : PrivateApiDeliver(s)
    \/ Advance

Next == CoreNext /\ UNCHANGED <<aw, msg, mut, adds, server, observer, shellVars>>

Spec == Init /\ [][Next]_vars

\* Timers fire, callbacks and continuations run, the clock moves.
Fairness ==
    /\ WF_coreVars(Advance)
    /\ WF_coreVars(GetEntries)
    /\ WF_coreVars(\E t \in tasks : ExpireEntry(t))
    /\ WF_coreVars(\E t \in tasks : QueryReturn(t))
    /\ WF_coreVars(\E t \in tasks : RemoveMatched(t))
    /\ WF_coreVars(\E s \in SendIds : AwaitPromise(s))
    /\ WF_coreVars(\E s \in SendIds : PromiseTimeout(s))
    /\ WF_coreVars(\E s \in SendIds, ok \in BOOLEAN : ActionHandlerSendMessage(s, ok))
    /\ WF_coreVars(\E s \in SendIds, status \in {"ok", "disabled"} :
                      \E identifier \in {NoGuid, PrivateGuid(s)} :
                         SendMessagePrivateApi(s, status, identifier))
    /\ WF_coreVars(\E s \in SendIds, fetchOk \in BOOLEAN : PrivateApiPoll(s, fetchOk))

SpecLive == Spec /\ Fairness

\* ------------------------------------------------------------- properties

InQueue(id) == \E i \in 1 .. Len(entries) : entries[i].id = id

HasEvent(type, id) ==
    \E k \in 1 .. Len(events) : events[k].type = type /\ events[k].entry = id

Settled(p) == p.state \in {"resolved", "rejected"}

\* Positions of the events a step appends.
NewEvents == {k \in 1 .. Len(events') : k > Len(events)}

\* The entry a task in flight works on.
EntryOfTask(id) == (CHOOSE t \in tasks : t.entry.id = id).entry

\* C1: a MessagePromise is settled at most once: once it is resolved or
\* rejected, no scanner match, no further tick and no timer changes its
\* state or the record it delivered.
C1_SettledAtMostOnce ==
    [][\A s \in SendIds : Settled(promises[s]) => promises'[s] = promises[s]]_vars

\* C1 witness: a promise was rejected by its timer and the scanner matched
\* the entry of the same send afterwards (the late resolve found it settled).
C1_Witness ==
    \E s \in SendIds : promises[s].state = "rejected" /\ HasEvent("message-match", s)

\* The queue entry of operation s.
OwnEntry(s) == entries[CHOOSE i \in 1 .. Len(entries) : entries[i].id = s]

SameKey(e1, e2) ==
    /\ e1.chat = e2.chat
    /\ EntryFingerprint(e1) = EntryFingerprint(e2)
    /\ IsAttachmentEntry(e1) = IsAttachmentEntry(e2)

\* No other entry, in the queue or held by a callback in flight, has the
\* correlation key of operation s.
AloneWithKey(s) ==
    /\ \A i \in 1 .. Len(entries) :
          entries[i].id # s => ~SameKey(entries[i], OwnEntry(s))
    /\ \A t \in tasks : t.entry.id # s => ~SameKey(t.entry, OwnEntry(s))

Deadline(s) == promises[s].createdAt + MaxWaitMs

\* A scanner tick will see the rows present now and report before the
\* promise's timer is due: the next tick is the one of this instant, or of
\* the next, and its query returns within one tick.
EarlyEnough(s) ==
    \/ clock + 2 * TickMs < Deadline(s)
    \/ lastTick < clock /\ clock + TickMs < Deadline(s)

\* Operation s was dispatched through AppleScript and awaits its promise, and
\* row g is the self-originated row with its text in its chat.
TextSendObserved(s, g) ==
    /\ sends[s].op = "text"
    /\ sends[s].method = "apple-script"
    /\ sends[s].pc = "await"
    /\ promises[s].state = "pending"
    /\ InQueue(s)
    /\ AloneWithKey(s)
    /\ MatchesOf(OwnEntry(s), clock) # <<>>
    /\ MatchesOf(OwnEntry(s), clock)[1] = g
    /\ EarlyEnough(s)

TextSendConfirmed(s, g) ==
    /\ sends[s].pc = "done"
    /\ sends[s].result = g
    /\ ~InQueue(s)
    /\ CacheHas(cache, g)

RowGuids == 1 .. MaxRecords

ConfirmingRow(s) ==
    IF sends[s].method = "private-api"
    THEN HasMessage(sends[s].identifier)
    ELSE \E i \in 1 .. Len(store) :
            /\ store[i].fromMe
            /\ store[i].chat = sends[s].chat
            /\ store[i].text = sends[s].text

Waiting(s) == sends[s].pc \in {"await", "poll"}

TimedOut(s) == sends[s].pc = "failed" /\ sends[s].error = "timeout"

\* C3: a send that waits for its confirmation ends with the timeout error
\* unless a confirming row appears; while it waits no more than 30 s (and one
\* clock step) have passed since it started, and the timeout error is never
\* raised before 30 s have passed.
C3_SendTimesOut ==
    /\ \A s \in SendIds : Waiting(s) ~> (TimedOut(s) \/ ConfirmingRow(s))
    /\ [](\A s \in SendIds :
            /\ Waiting(s) => clock <= sends[s].startedAt + MaxWaitMs + TickMs
            /\ TimedOut(s) => clock >= sends[s].startedAt + MaxWaitMs)

\* C3 witness: a Private API send failed with the timeout error, its row
\* never having appeared.
C3_Witness ==
    \E s \in SendIds :
        /\ sends[s].method = "private-api"
        /\ TimedOut(s)
        /\ ~ConfirmingRow(s)

EntryIds == 0 .. MaxSends

\* C5: a timeout event is emitted only by a tick whose time is more than 60 s
\* after the entry was created; a tick later than that never queries for the
\* entry; the entry is gone within a tick of the first such tick; and every
\* entry that is never matched is deleted with a timeout event.
C5_ExpiryAfterMaxAge ==
    /\ [][\A k \in NewEvents :
            events'[k].type = "message-timeout" =>
                \E t \in tasks \ tasks' :
                    /\ t.pc = "expire"
                    /\ t.entry.id = events'[k].entry
                    /\ t.now > t.entry.dateCreated + MaxAgeMs]_vars
    /\ [](\A t \in tasks : t.pc = "query" => t.now <= t.entry.dateCreated + MaxAgeMs)
    /\ [](\A i \in 1 .. Len(entries) :
            clock <= entries[i].dateCreated + MaxAgeMs + 2 * TickMs)
    /\ \A id \in EntryIds :
          InQueue(id) ~>
             (~InQueue(id) /\ (HasEvent("message-timeout", id) \/ HasEvent("message-match", id)))

\* C5 witness: the entry of a send was never matched and its timeout event
\* was emitted.
C5_Witness ==
    \E s \in SendIds :
        /\ sends[s].dispatched
        /\ ~InQueue(s)
        /\ HasEvent("message-timeout", s)
        /\ ~HasEvent("message-match", s)

\* C6: every message-match emitted for a text entry carries a row that is
\* self-originated, belongs to the entry's chat and has exactly its text.
C6_TextMatchingRule ==
    [][\A k \in NewEvents :
          events'[k].type = "message-match" =>
              LET e == EntryOfTask(events'[k].entry)
                  r == RowOf(events'[k].guid)
              IN  ~IsAttachmentEntry(e) =>
                      r.fromMe /\ r.chat = e.chat /\ r.text = e.text]_vars

\* C6 witness: a text entry was matched while it was in the queue of a send.
C6_Witness ==
    \E s \in SendIds :
        /\ sends[s].op = "text"
        /\ HasEvent("message-match", s)

\* ------------------------------------------------- resultAwaiter on its own

\* One call of resultAwaiter with the default loop condition and a getData
\* that returns nothing for its first aw.nulls calls and a value afterwards.
AwaitedData == PrivateGuid(1)

ScriptedData(n) == IF n > aw.nulls THEN AwaitedData ELSE NoGuid

AwaiterInit ==
    /\ LogUnused
    /\ ServerUnused
    /\ ObserverUnused
    /\ AuthUnused
    /\ ExitUnused
    /\ ConfigUnused
    /\ CoreUnused
    /\ MutUnused
    /\ aw \in [nulls : 0 .. MaxNulls, interval : 1 .. MaxInterval,
               maxWaitMs : 0 .. MaxDeadline, calls : {0}, waited : {0},
               status : {"running"}, value : {NoGuid}]

\* One round: getData, the loop condition, then return, give up or sleep.
AwaiterPoll ==
    /\ aw.status = "running"
    /\ LET data == ScriptedData(aw.calls + 1)
           outcome == ResultAwaiterOutcome(DataMissing(data), aw.waited, aw.maxWaitMs)
       IN  aw' = [aw EXCEPT
                   !.calls = @ + 1,
                   !.waited = IF outcome = "sleep" THEN @ + aw.interval ELSE @,
                   !.status = IF outcome = "sleep" THEN "running"
                              ELSE IF outcome = "return" THEN "returned"
                              ELSE "timeout",
                   !.value = ResultAwaiterValue(outcome, data, NoGuid)]
    /\ UNCHANGED <<coreVars, msg, mut, adds, server, observer, shellVars>>

AwaiterNext == AwaiterPoll

SpecAwaiter == AwaiterInit /\ [][AwaiterNext]_vars

SpecAwaiterLive == SpecAwaiter /\ WF_vars(AwaiterPoll)

\* The wait is longer than the time the scripted getData stays empty.
LongEnough == aw.maxWaitMs > aw.nulls * aw.interval

\* C8: with getData empty for its first k calls and yielding v afterwards,
\* interval i and a wait longer than k * i, the awaiter returns v, at the
\* first call that yields v, after k intervals, and calls getData no more.
C8_AwaiterReturnsFirstValue ==
    /\ [](LongEnough => aw.status # "timeout")
    /\ [](LongEnough /\ aw.status = "returned" =>
            /\ aw.value = AwaitedData
            /\ aw.calls = aw.nulls + 1
            /\ aw.waited = aw.nulls * aw.interval)
    /\ [][aw.status = "returned" => aw' = aw]_vars
    /\ (LongEnough /\ aw.status = "running") ~> (aw.status = "returned")

C8_Witness ==
    /\ LongEnough
    /\ aw.nulls = MaxNulls
    /\ aw.status = "returned"
    /\ aw.value = AwaitedData

\* ------------------------------------------------ edit, unsend and notify

\* One call of unsendMessage, editMessage or notifySilencedMessage on the row
\* msg, which other devices and the Private API change underneath it.
\* dateEdited 0 stands for a row that was never edited.
EditBaseline == 5

EditLater == 9

EditDates == {EditBaseline, EditLater}

MutInit ==
    /\ LogUnused
    /\ ServerUnused
    /\ ObserverUnused
    /\ AuthUnused
    /\ ExitUnused
    /\ ConfigUnused
    /\ CoreUnused
    /\ AwaiterUnused
    /\ msg \in {NullRow} \cup [present : {TRUE}, dateEdited : {0, EditBaseline},
                                didNotifyRecipient : BOOLEAN]
    /\ mut = IdleMut

MutFail(op, err) == [IdleMut EXCEPT !.op = op, !.pc = "failed", !.error = err]

\* msg?.dateEdited ?? 0
DateEditedOf(data) == IF data.present THEN data.dateEdited ELSE 0

\* A loop condition that lets an equal edit date through.
ExtraLoopConditionLess(data, currentEditDate) ==
    DateEditedOf(data) < currentEditDate

\* extraLoopCondition of editMessage and unsendMessage.
ExtraLoopCondition(data, currentEditDate) ==
    DateEditedOf(data) <= currentEditDate

\* dataLoopCondition of notifySilencedMessage.
NotifyLoopCondition(data) == ~data.didNotifyRecipient

\* The awaiter's own condition on a row: nothing was fetched.
RowMissing(data) == ~data.present

\* Checks that leave the macOS version out.
MutateStartAnyVersion(op, status, isMinVentura) ==
    /\ mut.pc = "idle"
    /\ mut' = IF status # "ok" THEN MutFail(op, "precondition")
              ELSE [mut EXCEPT !.op = op, !.pc = "read"]
    /\ UNCHANGED <<coreVars, aw, msg, adds, server, observer, shellVars>>

\* The checks of unsendMessage and editMessage before their first await.
MutateStart(op, status, isMinVentura) ==
    /\ mut.pc = "idle"
    /\ mut' = IF status # "ok" THEN MutFail(op, "precondition")
              ELSE IF ~isMinVentura THEN MutFail(op, "unsupported")
              ELSE [mut EXCEPT !.op = op, !.pc = "read"]
    /\ UNCHANGED <<coreVars, aw, msg, adds, server, observer, shellVars>>

UnsendMessage(status, isMinVentura) == MutateStart("unsend", status, isMinVentura)

EditMessage(status, isMinVentura) == MutateStart("edit", status, isMinVentura)

\* A notify that does not look at message.didNotifyRecipient.
NotifySilencedMessageAgain(status, isMinMonterey) ==
    /\ mut.pc = "idle"
    /\ msg.present
    /\ mut' = IF status # "ok" THEN MutFail("notify", "precondition")
              ELSE IF ~isMinMonterey THEN MutFail("notify", "unsupported")
              ELSE [mut EXCEPT !.op = "notify", !.pc = "dispatch"]
    /\ UNCHANGED <<coreVars, aw, msg, adds, server, observer, shellVars>>

\* notifySilencedMessage up to its first await; message is the row as the
\* caller holds it.
NotifySilencedMessage(status, isMinMonterey) ==
    /\ mut.pc = "idle"
    /\ msg.present
    /\ mut' = IF status # "ok" THEN MutFail("notify", "precondition")
              ELSE IF ~isMinMonterey THEN MutFail("notify", "unsupported")
              ELSE IF msg.didNotifyRecipient THEN MutFail("notify", "already-notified")
              ELSE [mut EXCEPT !.op = "notify", !.pc = "dispatch"]
    /\ UNCHANGED <<coreVars, aw, msg, adds, server, observer, shellVars>>

\* const msg = await getMessage(...); const currentEditDate = ...
ReadEditDate ==
    /\ mut.pc = "read"
    /\ mut' = [mut EXCEPT !.baseline = DateEditedOf(msg), !.pc = "dispatch"]
    /\ UNCHANGED <<coreVars, aw, msg, adds, server, observer, shellVars>>

\* await privateApi.message.unsend / edit / notify: it returns or throws.
MutDispatch(ok) ==
    /\ mut.pc = "dispatch"
    /\ mut' = IF ok THEN [mut EXCEPT !.pc = "poll", !.dispatched = TRUE, !.waited = 0]
              ELSE [mut EXCEPT !.pc = "failed", !.error = "dispatch"]
    /\ UNCHANGED <<coreVars, aw, msg, adds, server, observer, shellVars>>

\* The poll of editMessage and unsendMessage without the check of retMessage.
EditPollUnchecked(fetchOk) ==
    /\ mut.pc = "poll"
    /\ mut.op \in {"edit", "unsend"}
    /\ LET data == IF fetchOk THEN msg ELSE NullRow
           keepLooping == RowMissing(data) \/ ExtraLoopCondition(data, mut.baseline)
           outcome == ResultAwaiterOutcome(keepLooping, mut.waited, MaxWaitMs)
           retMessage == ResultAwaiterValue(outcome, data, NullRow)
       IN  mut' = IF outcome = "sleep"
                  THEN [mut EXCEPT !.waited = @ + PollIntervalMs, !.fetched = data]
                  ELSE [mut EXCEPT !.pc = "done", !.result = retMessage,
                                   !.fetched = data]
    /\ UNCHANGED <<coreVars, aw, msg, adds, server, observer, shellVars>>

\* One round of the resultAwaiter call of editMessage and unsendMessage, and
\* after the awaiter the check if (!retMessage) throw.
EditPoll(fetchOk) ==
    /\ mut.pc = "poll"
    /\ mut.op \in {"edit", "unsend"}
    /\ LET data == IF fetchOk THEN msg ELSE NullRow
           keepLooping == RowMissing(data) \/ ExtraLoopCondition(data, mut.baseline)
           outcome == ResultAwaiterOutcome(keepLooping, mut.waited, MaxWaitMs)
           retMessage == ResultAwaiterValue(outcome, data, NullRow)
       IN  mut' = IF outcome = "sleep"
                  THEN [mut EXCEPT !.waited = @ + PollIntervalMs, !.fetched = data]
                  ELSE IF ~retMessage.present
                       THEN [mut EXCEPT !.pc = "failed", !.error = "timeout",
                                        !.fetched = data]
                  ELSE [mut EXCEPT !.pc = "done", !.result = retMessage,
                                   !.fetched = data]
    /\ UNCHANGED <<coreVars, aw, msg, adds, server, observer, shellVars>>

\* One round of the resultAwaiter call of notifySilencedMessage, and after
\* the awaiter return retMessage.
NotifyPoll(fetchOk) ==
    /\ mut.pc = "poll"
    /\ mut.op = "notify"
    /\ LET data == IF fetchOk THEN msg ELSE NullRow
           keepLooping == RowMissing(data) \/ NotifyLoopCondition(data)
           outcome == ResultAwaiterOutcome(keepLooping, mut.waited, MaxWaitMs)
           retMessage == ResultAwaiterValue(outcome, data, NullRow)
       IN  mut' = IF outcome = "sleep"
                  THEN [mut EXCEPT !.waited = @ + PollIntervalMs, !.fetched = data]
                  ELSE [mut EXCEPT !.pc = "done", !.result = retMessage,
                                   !.fetched = data]
    /\ UNCHANGED <<coreVars, aw, msg, adds, server, observer, shellVars>>

\* The row's edit date is written: by this edit, or by another device.
MessageEdited(d) ==
    /\ msg.present
    /\ d >= msg.dateEdited
    /\ msg' = [msg EXCEPT !.dateEdited = d]
    /\ UNCHANGED <<coreVars, aw, mut, adds, server, observer, shellVars>>

\* The recipient was notified.
RecipientNotified ==
    /\ msg.present
    /\ ~msg.didNotifyRecipient
    /\ msg' = [msg EXCEPT !.didNotifyRecipient = TRUE]
    /\ UNCHANGED <<coreVars, aw, mut, adds, server, observer, shellVars>>

MutNext ==
    \/ \E status \in {"ok", "disabled"}, isMinVentura \in BOOLEAN :
          UnsendMessage(status, isMinVentura)
    \/ \E status \in {"ok", "disabled"}, isMinVentura \in BOOLEAN :
          EditMessage(status, isMinVentura)
    \/ \E status \in {"ok", "disabled"}, isMinMonterey \in BOOLEAN :
          NotifySilencedMessage(status, isMinMonterey)
    \/ ReadEditDate
    \/ \E ok \in BOOLEAN : MutDispatch(ok)
    \/ \E fetchOk \in BOOLEAN : EditPoll(fetchOk)
    \/ \E fetchOk \in BOOLEAN : NotifyPoll(fetchOk)
    \/ \E d \in EditDates : MessageEdited(d)
    \/ RecipientNotified

SpecMutate == MutInit /\ [][MutNext]_vars

MutFairness ==
    /\ WF_vars(ReadEditDate)
    /\ WF_vars(\E ok \in BOOLEAN : MutDispatch(ok))
    /\ WF_vars(\E fetchOk \in BOOLEAN : EditPoll(fetchOk))
    /\ WF_vars(\E fetchOk \in BOOLEAN : NotifyPoll(fetchOk))

SpecMutateLive == SpecMutate /\ MutFairness

IsEdit == mut.op \in {"edit", "unsend"}

\* The row carries an edit date later than the one read before the dispatch.
Advanced(row) == row.present /\ row.dateEdited > mut.baseline

\* What confirms each operation.
Confirms(row) ==
    /\ row.present
    /\ IsEdit => row.dateEdited > mut.baseline
    /\ mut.op = "notify" => row.didNotifyRecipient

\* C4: an operation whose confirming condition is not observed within the
\* wait fails with a timeout error; it never returns an absent record or a
\* record that does not satisfy the confirming condition.
C4_NoUnconfirmedReturn ==
    /\ mut.pc = "done" => Confirms(mut.result)
    /\ (mut.pc = "failed" /\ mut.dispatched) => mut.error = "timeout"

\* C9: when the wait runs out before a fetched row satisfies the loop
\* conditions, edit and unsend fail with the timeout error and hand back
\* nothing, whatever the last fetch returned; an edit or unsend whose row
\* never advances ends in that failure.
C9_TimeoutDiscardsLastValue ==
    /\ [][(IsEdit /\ mut.pc = "poll" /\ mut' # mut /\ mut.waited >= MaxWaitMs
            /\ ~Advanced(mut'.fetched))
           => (mut'.pc = "failed" /\ mut'.error = "timeout"
               /\ ~mut'.result.present)]_vars
    /\ [](IsEdit /\ mut.pc = "done" => mut.result.present)
    /\ (IsEdit /\ mut.pc = "poll")
         ~> \/ mut.pc = "failed" /\ mut.error = "timeout" /\ ~mut.result.present
            \/ mut.pc = "done" /\ Advanced(mut.result)

C9_Witness ==
    /\ IsEdit
    /\ mut.pc = "failed"
    /\ mut.error = "timeout"
    /\ mut.fetched.present
    /\ mut.fetched = msg
    /\ msg.dateEdited = EditBaseline
    /\ mut.baseline = EditBaseline

\* C10: edit and unsend read the row's edit date before the dispatch, and
\* end only with a row just fetched whose edit date is strictly later: a
\* fetch that shows the date read before never ends the wait, a fetch that
\* shows a later one does.
C10_StrictlyLaterEditDate ==
    /\ [][(mut.pc = "read" /\ mut' # mut)
           => (mut'.baseline = (IF msg.present THEN msg.dateEdited ELSE 0)
               /\ ~mut'.dispatched)]_vars
    /\ [][mut.pc # "read" /\ mut'.pc # "idle" /\ IsEdit
           => mut'.baseline = mut.baseline]_vars
    /\ [](IsEdit /\ mut.pc = "done" =>
            /\ mut.result = mut.fetched
            /\ mut.result.present
            /\ mut.result.dateEdited > mut.baseline)
    /\ [][(IsEdit /\ mut.pc = "poll" /\ mut' # mut)
           => /\ (mut'.fetched = msg \/ mut'.fetched = NullRow)
              /\ (mut'.pc = "done") <=> Advanced(mut'.fetched)]_vars

C10_Witness ==
    /\ IsEdit
    /\ mut.pc = "done"
    /\ mut.baseline = EditBaseline
    /\ mut.result.dateEdited = EditLater
    /\ mut.waited > 0

\* ------------------------------------------------------ attachment sends

Mp3Ext == <<".", "m", "p", "3">>

CafExt == <<".", "c", "a", "f">>

AttachmentNames == {<<"c">> \o Mp3Ext, <<"c">> \o CafExt, <<"c", ".", "p", "n", "g">>}

\* Texts of rows that carry an attachment: the placeholder alone, or the
\* placeholder and a caption.
AttachmentTexts == {InvisibleMediaChar, InvisibleMediaChar \o <<"h">>}

AttachmentInit ==
    /\ LogUnused
    /\ ServerUnused
    /\ ObserverUnused
    /\ AuthUnused
    /\ ExitUnused
    /\ ConfigUnused
    /\ AwaiterUnused
    /\ MutUnused
    /\ CoreUnused

\* A dispatch that records the attachment's name as it was given.
RewriteNameNever(aName, isAudioMessage) == aName

\* let aName = attachmentName; if (aName.endsWith(".mp3") && isAudioMessage)
\* aName = aName.substring(0, aName.length - 4) + ".caf"
RewriteName(aName, isAudioMessage) ==
    IF EndsWith(aName, Mp3Ext) /\ isAudioMessage
    THEN SubSeq(aName, 1, Len(aName) - 4) \o CafExt
    ELSE aName

\* new MessagePromise({text: aName, isAttachment: true}) and
\* messageManager.add, then the branch on the method.
RegisterAttachment(s, snd) ==
    /\ promises' = [promises EXCEPT ![s] =
          NewPromise(snd.chat, RewriteName(snd.name, snd.isAudioMessage), TRUE)]
    /\ registry' = Append(registry, s)
    /\ sends' = [sends EXCEPT ![s] =
          IF snd.method = "apple-script" THEN [snd EXCEPT !.pc = "dispatch"]
          ELSE IF snd.method = "private-api" THEN [snd EXCEPT !.pc = "papi"]
          ELSE Fail(snd, "invalid-method")]

\* sendAttachmentSync up to its first await: the chat check and the copy of
\* the file; the AppleScript method then waits for startMessages.
SendAttachmentSync(s, chat, name, isAudioMessage, method) ==
    /\ CanStart(s)
    /\ LET snd == [IdleSend EXCEPT !.op = "attachment", !.chat = chat, !.name = name,
                                   !.isAudioMessage = isAudioMessage,
                                   !.method = method, !.startedAt = clock]
           copied == [snd EXCEPT !.filePath = name, !.copy = "present"]
       IN  IF chat = ""
           THEN /\ sends' = [sends EXCEPT ![s] = Fail(snd, "validation")]
                /\ UNCHANGED <<promises, registry>>
           ELSE IF method = "apple-script"
           THEN /\ sends' = [sends EXCEPT ![s] = [copied EXCEPT !.pc = "start"]]
                /\ UNCHANGED <<promises, registry>>
           ELSE RegisterAttachment(s, copied)
    /\ UNCHANGED <<clock, store, entries, tasks, lastTick, cache, events>>

\* await FileSystem.startMessages() returned.
StartMessages(s) ==
    /\ sends[s].pc = "start"
    /\ RegisterAttachment(s, sends[s])
    /\ UNCHANGED <<clock, store, entries, tasks, lastTick, cache, events>>

\* The text of the queue entry of an attachment: tempGuid->name.
AttachmentEntryText(s) == TempGuidOf(s) \o Arrow \o promises[s].text

\* await ActionHandler.sendMessage(chatGuid, "", newPath, isAudioMessage)
ActionHandlerSendAttachment(s, ok) ==
    /\ sends[s].pc = "dispatch"
    /\ sends[s].op = "attachment"
    /\ IF ok
       THEN /\ entries' = Append(entries, NewEntry(s, sends[s].chat, AttachmentEntryText(s)))
            /\ sends' = [sends EXCEPT ![s].pc = "await", ![s].dispatched = TRUE]
       ELSE /\ sends' = [sends EXCEPT ![s] = Fail(sends[s], "dispatch")]
            /\ UNCHANGED entries
    /\ UNCHANGED <<clock, store, promises, registry, tasks, lastTick, cache, events>>

\* A cleanup that deletes the copy whatever the platform and the method.
UnlinkAlways(snd, isMinMonterey) == [snd EXCEPT !.copy = "deleted"]

\* if (!isMinMonterey && method === "apple-script") fs.unlink(newPath)
Unlink(snd, isMinMonterey) ==
    IF ~isMinMonterey /\ snd.method = "apple-script"
    THEN [snd EXCEPT !.copy = "deleted"]
    ELSE snd

\* sentMessage = await awaiter.promise on the AppleScript path, and the rest
\* of sendAttachmentSync when it resolves.
AwaitAttachmentPromise(s, isMinMonterey) ==
    /\ sends[s].pc = "await"
    /\ sends[s].op = "attachment"
    /\ promises[s].state \in {"resolved", "rejected"}
    /\ sends' = [sends EXCEPT ![s] =
          IF promises[s].state = "resolved"
          THEN Unlink(Succeed(sends[s], promises[s].value), isMinMonterey)
          ELSE Fail(sends[s], "timeout")]
    /\ UNCHANGED <<clock, store, promises, registry, entries, tasks, lastTick, cache, events>>

\* sendAttachmentPrivateApi up to the poll: checkPrivateApiStatus, the
\* conversion of an audio mp3, the send and the check of the identifier.
SendAttachmentPrivateApi(s, status, converted, identifier) ==
    /\ sends[s].pc = "papi"
    /\ sends[s].op = "attachment"
    /\ LET filePath == IF EndsWith(sends[s].filePath, Mp3Ext) /\ sends[s].isAudioMessage
                          /\ converted
                       THEN SubSeq(sends[s].filePath, 1, Len(sends[s].filePath) - 4) \o CafExt
                       ELSE sends[s].filePath
       IN  sends' = [sends EXCEPT ![s] =
              IF status # "ok" THEN Fail(sends[s], "precondition")
              ELSE IF identifier = NoGuid
                   THEN [Fail(sends[s], "dispatch") EXCEPT !.dispatched = TRUE,
                                                           !.filePath = filePath]
              ELSE [sends[s] EXCEPT !.pc = "poll", !.identifier = identifier,
                                    !.dispatched = TRUE, !.waited = 0,
                                    !.nextPoll = clock, !.filePath = filePath]]
    /\ UNCHANGED <<clock, store, promises, registry, entries, tasks, lastTick, cache, events>>

\* The poll of sendAttachmentPrivateApi and the check if (!retMessage) throw.
AttachmentPrivateApiPoll(s, fetchOk) ==
    /\ sends[s].pc = "poll"
    /\ sends[s].op = "attachment"
    /\ clock >= sends[s].nextPoll
    /\ LET data == IF fetchOk THEN GetMessage(sends[s].identifier) ELSE NoGuid
           outcome == ResultAwaiterOutcome(DataMissing(data), sends[s].waited, MaxWaitMs)
           retMessage == ResultAwaiterValue(outcome, data, NoGuid)
       IN  sends' = [sends EXCEPT ![s] =
              IF outcome = "sleep"
              THEN [sends[s] EXCEPT !.waited = @ + PollIntervalMs,
                                    !.nextPoll = clock + PollIntervalMs]
              ELSE IF retMessage = NoGuid THEN Fail(sends[s], "timeout")
              ELSE [sends[s] EXCEPT !.pc = "confirm", !.result = retMessage]]
    /\ UNCHANGED <<clock, store, promises, registry, entries, tasks, lastTick, cache, events>>

\* A confirmation that lets the rejection of the MessagePromise through.
ConfirmAttachmentRethrow(s, isMinMonterey) ==
    /\ sends[s].pc = "confirm"
    /\ ConfirmReady(s)
    /\ sends' = [sends EXCEPT ![s] =
          IF RowOf(sends[s].result).isSent
          THEN Unlink(Succeed(sends[s], sends[s].result), isMinMonterey)
          ELSE IF promises[s].state = "resolved"
               THEN Unlink(Succeed(sends[s], promises[s].value), isMinMonterey)
          ELSE Fail(sends[s], "timeout")]
    /\ UNCHANGED <<clock, store, promises, registry, entries, tasks, lastTick, cache, events>>

\* sendAttachmentSync after sendAttachmentPrivateApi: if the row is not sent
\* yet, await awaiter.promise, and keep the row when the promise rejects.
ConfirmAttachment(s, isMinMonterey) ==
    /\ sends[s].pc = "confirm"
    /\ ConfirmReady(s)
    /\ LET sentMessage ==
              IF ~RowOf(sends[s].result).isSent /\ promises[s].state = "resolved"
              THEN promises[s].value
              ELSE sends[s].result
       IN  sends' = [sends EXCEPT ![s] = Unlink(Succeed(sends[s], sentMessage), isMinMonterey)]
    /\ UNCHANGED <<clock, store, promises, registry, entries, tasks, lastTick, cache, events>>

\* A row with an attachment appears in the iMessage database.
StoreInsertAttachment(chat, text, fromMe, transferName) ==
    StoreInsert(chat, text, fromMe, transferName)

\* The message a Private API attachment send announced appears.
PrivateApiDeliverAttachment(s, isSent) ==
    /\ sends[s].op = "attachment"
    /\ sends[s].identifier # NoGuid
    /\ ~HasMessage(sends[s].identifier)
    /\ Len(store) < MaxRecords
    /\ store' = Append(store, NewRow(sends[s].identifier, sends[s].chat, InvisibleMediaChar,
                                     TRUE, sends[s].filePath, isSent))
    /\ UNCHANGED <<clock, sends, promises, registry, entries, tasks, lastTick, cache, events>>

AttachmentNext ==
    /\ \/ \E s \in SendIds, chat \in ChatInputs, name \in AttachmentNames :
            \E isAudioMessage \in BOOLEAN, method \in Methods :
               SendAttachmentSync(s, chat, name, isAudioMessage, method)
       \/ \E s \in SendIds : StartMessages(s)
       \/ \E s \in SendIds, ok \in BOOLEAN : ActionHandlerSendAttachment(s, ok)
       \/ \E s \in SendIds, isMinMonterey \in BOOLEAN :
            AwaitAttachmentPromise(s, isMinMonterey)
       \/ \E s \in SendIds : PromiseTimeout(s)
       \/ \E s \in SendIds, status \in {"ok", "disabled"}, converted \in BOOLEAN :
            \E identifier \in {NoGuid, PrivateGuid(s)} :
               SendAttachmentPrivateApi(s, status, converted, identifier)
       \/ \E s \in SendIds, fetchOk \in BOOLEAN : AttachmentPrivateApiPoll(s, fetchOk)
       \/ \E s \in SendIds, isMinMonterey \in BOOLEAN : ConfirmAttachment(s, isMinMonterey)
       \/ GetEntries
       \/ \E t \in tasks : ExpireEntry(t)
       \/ \E t \in tasks : QueryReturn(t)
       \/ \E t \in tasks : RemoveMatched(t)
       \/ \E chat \in Chats, text \in AttachmentTexts, fromMe \in BOOLEAN :
            \E transferName \in AttachmentNames :
               StoreInsertAttachment(chat, text, fromMe, transferName)
       \/ \E s \in SendIds, isSent \in BOOLEAN : PrivateApiDeliverAttachment(s, isSent)
       \/ Advance
    /\ UNCHANGED <<aw, msg, mut, adds, server, observer, shellVars>>

SpecAttachment == AttachmentInit /\ [][AttachmentNext]_vars

\* The name an attachment send is to be matched by: X.caf for an audio
\* message named X.mp3, the name as given otherwise.
NameForMatching(s, recorded) ==
    LET n == sends[s].name
        audioMp3 == sends[s].isAudioMessage /\ EndsWith(n, Mp3Ext)
    IN  /\ audioMp3 => \E k \in 0 .. Len(n) :
                          /\ n = SubSeq(n, 1, k) \o Mp3Ext
                          /\ recorded = SubSeq(n, 1, k) \o CafExt
        /\ ~audioMp3 => recorded = n

\* C7: an audio-message send of X.mp3 records X.caf as the name to match, in
\* the MessagePromise and in the queue entry, and every other attachment send
\* records the name as given; a message-match for the entry carries a
\* self-originated row of the chat whose text is the placeholder alone and
\* whose attachment has the recorded transfer name.
C7_AttachmentNamingRule ==
    /\ [](\A s \in SendIds :
            (sends[s].op = "attachment" /\ promises[s].state # "none") =>
                /\ promises[s].isAttachment
                /\ NameForMatching(s, promises[s].text)
                /\ InQueue(s) =>
                      /\ IsAttachmentEntry(OwnEntry(s))
                      /\ NameForMatching(s, EntryAttachmentName(OwnEntry(s))))
    /\ [][\A k \in NewEvents :
            events'[k].type = "message-match" =>
                LET e == EntryOfTask(events'[k].entry)
                    r == RowOf(events'[k].guid)
                IN  IsAttachmentEntry(e) =>
                       /\ r.fromMe
                       /\ r.chat = e.chat
                       /\ r.text = InvisibleMediaChar
                       /\ NameForMatching(e.id, r.transferName)]_vars

\* C7 witness: the audio-message send of c.mp3 ended with a row whose
\* attachment is named c.caf, delivered by the match of its queue entry.
C7_Witness ==
    \E s \in SendIds :
        /\ sends[s].op = "attachment"
        /\ sends[s].isAudioMessage
        /\ sends[s].name = <<"c">> \o Mp3Ext
        /\ sends[s].method = "apple-script"
        /\ HasEvent("message-match", s)
        /\ sends[s].pc = "done"
        /\ RowOf(sends[s].result).transferName = <<"c">> \o CafExt

\* ------------------------------------------------ the event cache on its own

CacheIds == 1 .. MaxCacheIds

CacheInit ==
    /\ CoreUnused
    /\ MutUnused
    /\ AwaiterUnused
    /\ ServerUnused
    /\ ObserverUnused
    /\ AuthUnused
    /\ ExitUnused
    /\ ConfigUnused
    /\ adds = <<>>

\* cache.add(id)
CacheAddCall(id) ==
    /\ Len(adds) < MaxAdds
    /\ cache' = CacheAdd(cache, id)
    /\ adds' = Append(adds, id)
    /\ UNCHANGED <<clock, store, sends, promises, registry, entries, tasks, lastTick,
                   events, aw, msg, mut, server, observer, shellVars>>

CacheNext == \E id \in CacheIds : CacheAddCall(id)

SpecCache == CacheInit /\ [][CacheNext]_vars

Held == {id \in CacheIds : CacheHas(cache, id)}

\* The identifiers a first-in-first-out cache of the given capacity holds
\* after the adds of a log, oldest first.
RECURSIVE Window(_)
Window(log) ==
    IF log = <<>> THEN <<>>
    ELSE LET w == Window(SubSeq(log, 1, Len(log) - 1))
             id == log[Len(log)]
         IN  IF \E k \in 1 .. Len(w) : w[k] = id THEN w
             ELSE IF Len(w) < CacheCapacity THEN Append(w, id)
             ELSE Append(SubSeq(w, 2, Len(w)), id)

\* C11: after any sequence of adds the cache holds exactly the CacheCapacity
\* identifiers first added most recently: never more than its capacity, the
\* identifier just added is held, and an identifier leaves only as the oldest
\* one, when a full cache receives an identifier it does not hold.
C11_CacheHoldsNewestFirstAdded ==
    /\ [](Cardinality(Held) <= CacheCapacity)
    /\ [](adds # <<>> => CacheHas(cache, adds[Len(adds)]))
    /\ [](Held = {Window(adds)[k] : k \in 1 .. Len(Window(adds))})
    /\ [][\A id \in Held :
            ~CacheHas(cache', id) =>
                /\ Cardinality(Held) = CacheCapacity
                /\ id = Window(adds)[1]
                /\ ~CacheHas(cache, adds'[Len(adds')])]_vars

\* C11 witness: a full cache received one more identifier and dropped the
\* first one added, after a repeated add of that first one.
C11_Witness ==
    /\ Len(adds) > CacheCapacity + 1
    /\ adds[Len(adds) - 1] = adds[1]
    /\ ~CacheHas(cache, adds[1])
    /\ Cardinality(Held) = CacheCapacity

\* ----------------------------------------------------------- reactions

\* The typographic quotes of the reaction text.
LeftQuote == "(q"

RightQuote == "q)"

Space == " "

Reactions == {<<"love">>, <<"like">>, <<"-", "love">>, <<"-", "like">>}

\* reactionTextMap and negativeReactionTextMap, one word standing for each
\* configured prefix.
ReactionTextMap(reaction) ==
    IF reaction = <<"love">> THEN <<"Loved">>
    ELSE IF reaction = <<"like">> THEN <<"Liked">>
    ELSE <<"undefined">>

NegativeReactionTextMap(reaction) ==
    IF reaction = <<"-", "love">> THEN <<"Removed a heart from">>
    ELSE IF reaction = <<"-", "like">> THEN <<"Removed a like from">>
    ELSE <<"undefined">>

\* A prefix taken from the positive map whatever the reaction.
ReactionPrefixPositive(reaction) == ReactionTextMap(reaction)

\* const prefix = reaction.startsWith("-") ? negativeReactionTextMap[...] : ...
ReactionPrefix(reaction) ==
    IF StartsWith(reaction, <<"-">>) THEN NegativeReactionTextMap(reaction)
    ELSE ReactionTextMap(reaction)

\* String.prototype.includes
Includes(s, sub) == sub = <<>> \/ IndexOf(s, sub, 1) # 0

\* String.prototype.replace(pattern, ""): the first occurrence is removed.
RemoveFirst(s, pat) ==
    LET k == IndexOf(s, pat, 1)
    IN  IF k = 0 THEN s
        ELSE SubSeq(s, 1, k - 1) \o SubSeq(s, k + Len(pat), Len(s))

\* Attachments of a Message: guid, mimeType and uti, <<>> standing for null.
ImagePng == [guid |-> "a1", mimeType |-> <<"image", "/", "png">>, uti |-> <<"public.png">>]

VideoMp4 == [guid |-> "a1", mimeType |-> <<"video", "/", "mp4">>, uti |-> <<>>]

AudioMp3 == [guid |-> "a1", mimeType |-> <<"audio", "/", "mp3">>, uti |-> <<>>]

CoreAudio == [guid |-> "a1", mimeType |-> <<>>,
              uti |-> <<"com.apple.", "coreaudio-format">>]

Pdf == [guid |-> "a1", mimeType |-> <<"application", "/", "pdf">>, uti |-> <<"com.adobe.pdf">>]

SecondImage == [guid |-> "a2", mimeType |-> <<"image", "/", "png">>, uti |-> <<>>]

AttachmentLists ==
    {<<>>, <<ImagePng>>, <<VideoMp4>>, <<AudioMp3>>, <<CoreAudio>>, <<Pdf>>,
     <<Pdf, SecondImage>>}

\* The runs of attributedBody: the part each covers and the file transfer it
\* names, "" when it names none.
RunLists ==
    {<<>>,
     <<[part |-> 0, transfer |-> "a1"], [part |-> 1, transfer |-> ""]>>,
     <<[part |-> 0, transfer |-> "a1"], [part |-> 1, transfer |-> "a2"]>>}

TargetTexts == {<<>>, <<"h", "i">>, InvisibleMediaChar, InvisibleMediaChar \o <<"h", "i">>}

TargetMessages == [text : TargetTexts, attachments : AttachmentLists, runs : RunLists]

PartIndexes == {0, 1}

\* The loops over attributedBody and runs: the transfer of the first run of
\* the part that names one.
RECURSIVE MatchingGuid(_, _)
MatchingGuid(runs, partIndex) ==
    IF runs = <<>> THEN ""
    ELSE IF runs[1].part = partIndex /\ runs[1].transfer # ""
         THEN runs[1].transfer
    ELSE MatchingGuid(Tail(runs), partIndex)

\* attachments.find(a => a.guid === matchingGuid), then the first attachment
\* of a message that is only media; <<>> when there is none.
SelectedAttachment(message, partIndex) ==
    LET matchingGuid == MatchingGuid(message.runs, partIndex)
        found == SelectSeq(message.attachments, LAMBDA a : a.guid = matchingGuid)
        isOnlyMedia == Len(message.text) = 1 /\ message.text = InvisibleMediaChar
    IN  IF matchingGuid # "" /\ found # <<>> THEN <<found[1]>>
        ELSE IF isOnlyMedia /\ message.attachments # <<>> THEN <<message.attachments[1]>>
        ELSE <<>>

\* The description of an attachment by its mime type and uti.
AttachmentDescription(attachment) ==
    IF StartsWith(attachment.mimeType, <<"image">>) THEN <<"an image">>
    ELSE IF StartsWith(attachment.mimeType, <<"video">>) THEN <<"a movie">>
    ELSE IF \/ StartsWith(attachment.mimeType, <<"audio">>)
            \/ Includes(attachment.uti, <<"coreaudio-format">>)
         THEN <<"an audio message">>
    ELSE <<"an attachment">>

\* msg of sendReaction.
ReactionTarget(message, partIndex) ==
    LET selected == SelectedAttachment(message, partIndex)
        quoted == <<LeftQuote>> \o message.text \o <<RightQuote>>
    IN  IF selected # <<>> THEN AttachmentDescription(selected[1])
        ELSE RemoveFirst(quoted, InvisibleMediaChar)

\* const messageText = `${prefix} ${msg}`
ReactionMessageText(reaction, message, partIndex) ==
    ReactionPrefix(reaction) \o <<Space>> \o ReactionTarget(message, partIndex)

\* sendReaction up to its first await: checkPrivateApiStatus, the text to
\* match on, the MessagePromise and messageManager.add.
SendReaction(s, status, chat, message, reaction, partIndex) ==
    /\ CanStart(s)
    /\ LET messageText == ReactionMessageText(reaction, message, partIndex)
           snd == [IdleSend EXCEPT !.op = "reaction", !.chat = chat, !.text = messageText,
                                   !.method = "private-api", !.startedAt = clock,
                                   !.reaction = reaction, !.target = message,
                                   !.partIndex = partIndex]
       IN  IF status # "ok"
           THEN /\ sends' = [sends EXCEPT ![s] = Fail(snd, "precondition")]
                /\ UNCHANGED <<promises, registry>>
           ELSE /\ promises' = [promises EXCEPT ![s] = NewPromise(chat, messageText, FALSE)]
                /\ registry' = Append(registry, s)
                /\ sends' = [sends EXCEPT ![s] = [snd EXCEPT !.pc = "react"]]
    /\ UNCHANGED <<clock, store, entries, tasks, lastTick, cache, events>>

\* A dispatch that goes on to the poll whatever identifier came back.
ReactAnyIdentifier(s, identifier) ==
    /\ sends[s].pc = "react"
    /\ sends' = [sends EXCEPT ![s] =
          [sends[s] EXCEPT !.pc = "poll", !.identifier = identifier,
                           !.dispatched = TRUE, !.waited = 0, !.nextPoll = clock]]
    /\ UNCHANGED <<clock, store, promises, registry, entries, tasks, lastTick, cache, events>>

\* await privateApi.message.react(...) and the check of result.identifier.
React(s, identifier) ==
    /\ sends[s].pc = "react"
    /\ sends' = [sends EXCEPT ![s] =
          IF identifier = NoGuid
          THEN [Fail(sends[s], "dispatch") EXCEPT !.dispatched = TRUE]
          ELSE [sends[s] EXCEPT !.pc = "poll", !.identifier = identifier,
                                !.dispatched = TRUE, !.waited = 0, !.nextPoll = clock]]
    /\ UNCHANGED <<clock, store, promises, registry, entries, tasks, lastTick, cache, events>>

\* A poll that gives up when the awaiter hands back nothing.
ReactionPollOnly(s, fetchOk) ==
    /\ sends[s].pc = "poll"
    /\ sends[s].op = "reaction"
    /\ clock >= sends[s].nextPoll
    /\ LET data == IF fetchOk THEN GetMessage(sends[s].identifier) ELSE NoGuid
           outcome == ResultAwaiterOutcome(DataMissing(data), sends[s].waited, MaxWaitMs)
           retMessage == ResultAwaiterValue(outcome, data, NoGuid)
       IN  sends' = [sends EXCEPT ![s] =
              IF outcome = "sleep"
              THEN [sends[s] EXCEPT !.waited = @ + PollIntervalMs,
                                    !.nextPoll = clock + PollIntervalMs]
              ELSE IF retMessage = NoGuid THEN Fail(sends[s], "timeout")
              ELSE Succeed(sends[s], retMessage)]
    /\ UNCHANGED <<clock, store, promises, registry, entries, tasks, lastTick, cache, events>>

\* One round of the resultAwaiter call of sendReaction; when it hands back
\* nothing the MessagePromise is awaited.
ReactionPoll(s, fetchOk) ==
    /\ sends[s].pc = "poll"
    /\ sends[s].op = "reaction"
    /\ clock >= sends[s].nextPoll
    /\ LET data == IF fetchOk THEN GetMessage(sends[s].identifier) ELSE NoGuid
           outcome == ResultAwaiterOutcome(DataMissing(data), sends[s].waited, MaxWaitMs)
           retMessage == ResultAwaiterValue(outcome, data, NoGuid)
       IN  sends' = [sends EXCEPT ![s] =
              IF outcome = "sleep"
              THEN [sends[s] EXCEPT !.waited = @ + PollIntervalMs,
                                    !.nextPoll = clock + PollIntervalMs]
              ELSE IF retMessage = NoGuid THEN [sends[s] EXCEPT !.pc = "fallback"]
              ELSE Succeed(sends[s], retMessage)]
    /\ UNCHANGED <<clock, store, promises, registry, entries, tasks, lastTick, cache, events>>

\* retMessage = await awaiter.promise, and the check if (!retMessage) throw.
ReactionFallback(s) ==
    /\ sends[s].pc = "fallback"
    /\ promises[s].state \in {"resolved", "rejected"}
    /\ sends' = [sends EXCEPT ![s] =
          IF promises[s].state = "rejected" THEN Fail(sends[s], "timeout")
          ELSE IF promises[s].value = NoGuid THEN Fail(sends[s], "timeout")
          ELSE Succeed(sends[s], promises[s].value)]
    /\ UNCHANGED <<clock, store, promises, registry, entries, tasks, lastTick, cache, events>>

\* Every call of sendReaction up to the registration of its MessagePromise.
ReactionTextNext ==
    /\ \E s \in SendIds, status \in {"ok", "disabled"}, chat \in ChatInputs :
          \E message \in TargetMessages, reaction \in Reactions, partIndex \in PartIndexes :
             SendReaction(s, status, chat, message, reaction, partIndex)
    /\ UNCHANGED <<aw, msg, mut, adds, server, observer, shellVars>>

SpecReactionText == AttachmentInit /\ [][ReactionTextNext]_vars

Registered(s) == sends[s].op = "reaction" /\ promises[s].state # "none"

\* The prefix the claim names: the negative map for a reaction that starts
\* with '-', the positive map otherwise.
PrefixOf(reaction) ==
    IF reaction[1] = "-" THEN NegativeReactionTextMap(reaction)
    ELSE ReactionTextMap(reaction)

\* The description of an attachment by its media type.
MediaDescription(attachment) ==
    LET kind == IF attachment.mimeType = <<>> THEN "" ELSE attachment.mimeType[1]
    IN  IF kind = "image" THEN <<"an image">>
        ELSE IF kind = "video" THEN <<"a movie">>
        ELSE IF kind = "audio" \/ Includes(attachment.uti, <<"coreaudio-format">>)
             THEN <<"an audio message">>
        ELSE <<"an attachment">>

\* The text registered for a reaction, given the text to quote when the
\* part reacted to is not an attachment.
ReactionTextIs(s, quotedText) ==
    LET selected == SelectedAttachment(sends[s].target, sends[s].partIndex)
        description == IF selected # <<>> THEN MediaDescription(selected[1])
                       ELSE <<LeftQuote>> \o quotedText \o <<RightQuote>>
    IN  /\ ~promises[s].isAttachment
        /\ promises[s].text = PrefixOf(sends[s].reaction) \o <<Space>> \o description

\* C12 as stated: the text registered for a reaction is the prefix, a space,
\* and the description of the attachment reacted to or else the target's
\* text in typographic quotes.
C12_ReactionTextQuotesTargetText ==
    \A s \in SendIds : Registered(s) => ReactionTextIs(s, sends[s].target.text)

\* C12 amended: the quoted text is the target's text without its first
\* attachment placeholder.
C12_ReactionText ==
    \A s \in SendIds :
        Registered(s) =>
            ReactionTextIs(s, RemoveFirst(sends[s].target.text, InvisibleMediaChar))

\* C12 witness: 'love' on an image registers the 'love' prefix and ' an image'.
C12_Witness ==
    \E s \in SendIds :
        /\ Registered(s)
        /\ sends[s].reaction = <<"love">>
        /\ sends[s].target.attachments = <<ImagePng>>
        /\ sends[s].target.text = InvisibleMediaChar
        /\ promises[s].text = <<"Loved", " ", "an image">>

\* ------------------------------------------------------- multipart sends

\* A part that is text, and a part that names an attachment.
TextPart == [attachment |-> <<>>, filePath |-> <<>>]

FilePart == [attachment |-> <<"a">>, filePath |-> <<>>]

PartLists == {<<>>, <<TextPart>>, <<FilePart>>, <<FilePart, FilePart>>,
              <<FilePart, TextPart>>, <<TextPart, FilePart>>}

\* The copy loop tests parts[0].attachment for every i: path.join throws on
\* the first part without an attachment when the first part has one.
CopyThrows(parts) ==
    /\ parts[1].attachment # <<>>
    /\ \E i \in 1 .. Len(parts) : parts[i].attachment = <<>>

\* The parts as the loop leaves them: filePath is set on the parts it reached.
CopyParts(parts) ==
    [i \in 1 .. Len(parts) |->
        IF /\ parts[1].attachment # <<>>
           /\ \A j \in 1 .. i : parts[j].attachment # <<>>
        THEN [parts[i] EXCEPT !.filePath = parts[i].attachment]
        ELSE parts[i]]

\* sendMultipart up to its first await: checkPrivateApiStatus, the checks of
\* chatGuid and parts, and the copy of the attachments.
SendMultipart(s, status, chat, parts) ==
    /\ CanStart(s)
    /\ LET snd == [IdleSend EXCEPT !.op = "multipart", !.chat = chat,
                                   !.method = "private-api", !.startedAt = clock,
                                   !.parts = parts]
       IN  sends' = [sends EXCEPT ![s] =
              IF status # "ok" THEN Fail(snd, "precondition")
              ELSE IF chat = "" THEN Fail(snd, "validation")
              ELSE IF parts = <<>> THEN Fail(snd, "no-parts")
              ELSE IF CopyThrows(parts)
                   THEN [Fail(snd, "type-error") EXCEPT !.parts = CopyParts(parts)]
              ELSE [snd EXCEPT !.pc = "multipart", !.parts = CopyParts(parts)]]
    /\ UNCHANGED <<clock, store, promises, registry, entries, tasks, lastTick, cache, events>>

\* await privateApi.message.sendMultipart(...) and the check of
\* result.identifier.
PrivateApiSendMultipart(s, identifier) ==
    /\ sends[s].pc = "multipart"
    /\ sends' = [sends EXCEPT ![s] =
          IF identifier = NoGuid
          THEN [Fail(sends[s], "dispatch") EXCEPT !.dispatched = TRUE]
          ELSE [sends[s] EXCEPT !.pc = "poll", !.identifier = identifier,
                                !.dispatched = TRUE, !.waited = 0, !.nextPoll = clock]]
    /\ UNCHANGED <<clock, store, promises, registry, entries, tasks, lastTick, cache, events>>

\* One round of the resultAwaiter call of sendMultipart, and after the
\* awaiter the check if (!retMessage) throw.
MultipartPoll(s, fetchOk) ==
    /\ sends[s].pc = "poll"
    /\ sends[s].op = "multipart"
    /\ clock >= sends[s].nextPoll
    /\ LET data == IF fetchOk THEN GetMessage(sends[s].identifier) ELSE NoGuid
           outcome == ResultAwaiterOutcome(DataMissing(data), sends[s].waited, MaxWaitMs)
           retMessage == ResultAwaiterValue(outcome, data, NoGuid)
       IN  sends' = [sends EXCEPT ![s] =
              IF outcome = "sleep"
              THEN [sends[s] EXCEPT !.waited = @ + PollIntervalMs,
                                    !.nextPoll = clock + PollIntervalMs]
              ELSE IF retMessage = NoGuid THEN Fail(sends[s], "timeout")
              ELSE Succeed(sends[s], retMessage)]
    /\ UNCHANGED <<clock, store, promises, registry, entries, tasks, lastTick, cache, events>>

\* ------------------------------------------- every operation, one server

\* The servers an operation can be called on.
Servers == [status : {"ok", "disabled"}, isMinVentura : BOOLEAN, isMinMonterey : BOOLEAN]

\* What the operations are called with.
OpsText == <<"h", "i">>

OpsName == <<"c">> \o Mp3Ext

OpsTarget == [text |-> OpsText, attachments |-> <<>>, runs |-> <<>>]

OpsReaction == <<"love">>

OpsInit ==
    /\ LogUnused
    /\ AwaiterUnused
    /\ CoreUnused
    /\ server \in Servers
    /\ ObserverUnused
    /\ AuthUnused
    /\ ExitUnused
    /\ ConfigUnused
    /\ msg \in [present : {TRUE}, dateEdited : {0}, didNotifyRecipient : BOOLEAN]
    /\ mut = IdleMut

\* Operations called so far.
Calls == Cardinality(Started) + (IF mut.pc = "idle" THEN 0 ELSE 1)

OpsCoreNext ==
    \/ \E s \in SendIds, chat \in ChatInputs, method \in Methods :
          Calls < MaxSends /\ SendMessageSync(s, chat, OpsText, method)
    \/ \E s \in SendIds, chat \in ChatInputs, method \in Methods :
          Calls < MaxSends /\ SendAttachmentSync(s, chat, OpsName, TRUE, method)
    \/ \E s \in SendIds, chat \in ChatInputs :
          Calls < MaxSends
          /\ SendReaction(s, server.status, chat, OpsTarget, OpsReaction, 0)
    \/ \E s \in SendIds, chat \in ChatInputs, parts \in PartLists :
          Calls < MaxSends /\ SendMultipart(s, server.status, chat, parts)
    \/ \E s \in SendIds : StartMessages(s)
    \/ \E s \in SendIds, ok \in BOOLEAN :
          sends[s].op = "text" /\ ActionHandlerSendMessage(s, ok)
    \/ \E s \in SendIds, ok \in BOOLEAN : ActionHandlerSendAttachment(s, ok)
    \/ \E s \in SendIds : sends[s].op = "text" /\ AwaitPromise(s)
    \/ \E s \in SendIds : AwaitAttachmentPromise(s, server.isMinMonterey)
    \/ \E s \in SendIds : PromiseTimeout(s)
    \/ \E s \in SendIds : \E identifier \in {NoGuid, PrivateGuid(s)} :
          sends[s].op = "text" /\ SendMessagePrivateApi(s, server.status, identifier)
    \/ \E s \in SendIds, converted \in BOOLEAN : \E identifier \in {NoGuid, PrivateGuid(s)} :
          SendAttachmentPrivateApi(s, server.status, converted, identifier)
    \/ \E s \in SendIds : \E identifier \in {NoGuid, PrivateGuid(s)} : React(s, identifier)
    \/ \E s \in SendIds : \E identifier \in {NoGuid, PrivateGuid(s)} :
          PrivateApiSendMultipart(s, identifier)
    \/ \E s \in SendIds, fetchOk \in BOOLEAN : PrivateApiPoll(s, fetchOk)
    \/ \E s \in SendIds, fetchOk \in BOOLEAN : AttachmentPrivateApiPoll(s, fetchOk)
    \/ \E s \in SendIds, fetchOk \in BOOLEAN : ReactionPoll(s, fetchOk)
    \/ \E s \in SendIds, fetchOk \in BOOLEAN : MultipartPoll(s, fetchOk)
    \/ \E s \in SendIds : ConfirmAttachment(s, server.isMinMonterey)
    \/ \E s \in SendIds : ReactionFallback(s)
    \/ GetEntries
    \/ \E t \in tasks : ExpireEntry(t)
    \/ \E t \in tasks : QueryReturn(t)
    \/ \E t \in tasks : RemoveMatched(t)
    \/ StoreInsert("X", OpsText, TRUE, <<>>)
    \/ \E s \in SendIds : sends[s].op # "attachment" /\ PrivateApiDeliver(s)
    \/ \E s \in SendIds, isSent \in BOOLEAN : PrivateApiDeliverAttachment(s, isSent)
    \/ Advance

OpsNext ==
    \/ OpsCoreNext /\ UNCHANGED <<aw, msg, mut, adds, server, observer, shellVars>>
    \/ Calls < MaxSends /\ UnsendMessage(server.status, server.isMinVentura)
    \/ Calls < MaxSends /\ EditMessage(server.status, server.isMinVentura)
    \/ Calls < MaxSends /\ NotifySilencedMessage(server.status, server.isMinMonterey)
    \/ ReadEditDate
    \/ \E ok \in BOOLEAN : MutDispatch(ok)
    \/ \E fetchOk \in BOOLEAN : EditPoll(fetchOk)
    \/ \E fetchOk \in BOOLEAN : NotifyPoll(fetchOk)
    \/ \E d \in EditDates : MessageEdited(d)
    \/ RecipientNotified

SpecOps == OpsInit /\ [][OpsNext]_vars

\* The Private API is disabled, or its helper is not connected.
PrivateApiDown == server.status # "ok"

\* A precondition of the operation in sends[s] does not hold: the method is
\* none of the two, or the operation goes through the Private API and it is
\* down.
SendPreconditionFails(s) ==
    \/ sends[s].op \in {"text", "attachment"}
       /\ sends[s].method \notin {"apple-script", "private-api"}
    \/ sends[s].op \in {"text", "attachment", "reaction", "multipart"}
       /\ sends[s].method = "private-api"
       /\ PrivateApiDown

\* A precondition of the edit, unsend or notify in mut does not hold.
MutPreconditionFails ==
    \/ PrivateApiDown
    \/ mut.op \in {"edit", "unsend"} /\ ~server.isMinVentura
    \/ mut.op = "notify" /\ ~server.isMinMonterey

\* The operation was handed to ActionHandler or to the Private API.
SendCalled(s) ==
    \/ sends[s].dispatched
    \/ sends[s].error = "dispatch"
    \/ sends[s].identifier # NoGuid
    \/ \E i \in 1 .. Len(entries) : entries[i].id = s

C14_EmptyChatIsRejected ==
    \A s \in SendIds :
       sends[s].pc # "idle" /\ sends[s].chat = ""
       => /\ sends[s].pc = "failed"
          /\ sends[s].error = "validation"
          /\ ~SendCalled(s)

\* C14, the part of it sendReaction breaks: nothing was handed to a channel
\* for an empty chat identifier.
C14_EmptyChatIsNeverSent ==
    \A s \in SendIds : sends[s].chat = "" => ~SendCalled(s)

\* The Private API took the send of sends[s] and gave no identifier back.
AcceptedWithoutIdentifier(s) ==
    /\ sends[s].method = "private-api"
    /\ sends[s].dispatched
    /\ sends[s].identifier = NoGuid

\* C15: a send (text, attachment, reaction, multipart) the Private API took
\* without giving an identifier back has failed with the dispatch error, and
\* has not polled the database: it waited for no poll and holds no record.
C15_NoIdentifierFailsWithoutPolling ==
    \A s \in SendIds :
       AcceptedWithoutIdentifier(s)
       => /\ sends[s].pc = "failed"
          /\ sends[s].error = "dispatch"
          /\ sends[s].waited = 0
          /\ sends[s].result = NoGuid

\* The Private API took a reaction and gave no identifier back.
C15_Witness ==
    \E s \in SendIds :
       /\ sends[s].op = "reaction"
       /\ AcceptedWithoutIdentifier(s)
       /\ sends[s].error = "dispatch"

\* sendAttachmentPrivateApi has returned a record to sendAttachmentSync.
RecordObtained(s) == sends[s].op = "attachment" /\ sends[s].pc = "confirm"

\* C16: a Private API attachment send that holds the record of its dispatch
\* goes on without the MessagePromise when the record is marked sent; when it
\* is not, it goes on once the promise has settled, with the promise's record
\* when it resolved and with the record it holds when it was rejected. It
\* never fails once it holds a record.
C16_FallbackFailureSwallowed ==
    [][\A s \in SendIds :
          RecordObtained(s) /\ sends'[s] # sends[s]
          => /\ sends'[s].pc = "done"
             /\ IF RowOf(sends[s].result).isSent
                THEN sends'[s].result = sends[s].result
                ELSE /\ promises[s].state \in {"resolved", "rejected"}
                     /\ promises[s].state = "resolved"
                        => sends'[s].result = promises[s].value
                     /\ promises[s].state = "rejected"
                        => sends'[s].result = sends[s].result]_vars

\* An attachment send returned the record of its dispatch, which is not
\* marked sent, after its MessagePromise was rejected.
C16_Witness ==
    \E s \in SendIds :
       /\ sends[s].op = "attachment"
       /\ sends[s].method = "private-api"
       /\ sends[s].pc = "done"
       /\ promises[s].state = "rejected"
       /\ sends[s].result = sends[s].identifier
       /\ ~RowOf(sends[s].result).isSent

\* ------------------------------------------- reactions and the scanner

\* A queue entry an AppleScript send of the reaction's text left behind.
ReactionEntry ==
    [id |-> 0, chat |-> "X", text |-> ReactionMessageText(OpsReaction, OpsTarget, 0),
     tempGuid |-> <<"t", "0">>, dateCreated |-> 0 - PersistedAgeMs]

ReactionInit ==
    /\ LogUnused
    /\ ServerUnused
    /\ ObserverUnused
    /\ AuthUnused
    /\ ExitUnused
    /\ ConfigUnused
    /\ AwaiterUnused
    /\ MutUnused
    /\ clock = 0
    /\ store = <<>>
    /\ sends = [s \in SendIds |-> IdleSend]
    /\ promises = [s \in SendIds |-> NoPromise]
    /\ registry = <<>>
    /\ entries \in {<<>>, <<ReactionEntry>>}
    /\ tasks = {}
    /\ lastTick = -1
    /\ cache = <<>>
    /\ events = <<>>

ReactionNext ==
    /\ \/ \E s \in SendIds, status \in {"ok", "disabled"}, chat \in ChatInputs :
            SendReaction(s, status, chat, OpsTarget, OpsReaction, 0)
       \/ \E s \in SendIds : \E identifier \in {NoGuid, PrivateGuid(s)} : React(s, identifier)
       \/ \E s \in SendIds, fetchOk \in BOOLEAN : ReactionPoll(s, fetchOk)
       \/ \E s \in SendIds : ReactionFallback(s)
       \/ \E s \in SendIds : PromiseTimeout(s)
       \/ GetEntries
       \/ \E t \in tasks : ExpireEntry(t)
       \/ \E t \in tasks : QueryReturn(t)
       \/ \E t \in tasks : RemoveMatched(t)
       \/ \E chat \in Chats, fromMe \in BOOLEAN :
            StoreInsert(chat, ReactionMessageText(OpsReaction, OpsTarget, 0), fromMe, <<>>)
       \/ \E s \in SendIds : PrivateApiDeliver(s)
       \/ Advance
    /\ UNCHANGED <<aw, msg, mut, adds, server, observer, shellVars>>

SpecReaction == ReactionInit /\ [][ReactionNext]_vars

IsReaction(s) == sends[s].op = "reaction"

\* C17: sendReaction looks for the row of the identifier the dispatch gave
\* back first: while it polls it returns that row and nothing else, and it
\* turns to the MessagePromise only after the poll has run its whole wait
\* without a row. From there it returns the record the promise was resolved
\* with, and fails only when the promise was rejected: a reaction whose
\* promise was resolved never fails with the timeout.
C17_PollThenPromise ==
    /\ [][\A s \in SendIds :
             /\ IsReaction(s) /\ sends[s].pc = "poll" /\ sends'[s].pc = "done"
                => /\ sends'[s].result = sends[s].identifier
                   /\ HasMessage(sends[s].identifier)
             /\ IsReaction(s) /\ sends'[s].pc = "fallback" /\ sends[s].pc # "fallback"
                => /\ sends[s].pc = "poll"
                   /\ sends[s].waited >= MaxWaitMs
             /\ IsReaction(s) /\ sends[s].pc = "fallback" /\ sends'[s].pc # "fallback"
                => IF promises[s].state = "resolved"
                   THEN sends'[s].pc = "done" /\ sends'[s].result = promises[s].value
                   ELSE sends'[s].pc = "failed" /\ sends'[s].error = "timeout"]_vars
    /\ [](\A s \in SendIds :
             IsReaction(s) /\ promises[s].state = "resolved"
             => ~(sends[s].pc = "failed" /\ sends[s].error = "timeout"))

\* The poll by identifier found no row in its whole wait, and the reaction
\* returned the record the scanner had resolved its MessagePromise with.
C17_Witness ==
    \E s \in SendIds :
       /\ IsReaction(s)
       /\ sends[s].pc = "done"
       /\ sends[s].waited >= MaxWaitMs
       /\ promises[s].state = "resolved"
       /\ sends[s].result = promises[s].value
       /\ sends[s].result # sends[s].identifier
       /\ HasEvent("message-match", 0)

\* ------------------------------------------------------ notify, once more

\* The errors notifySilencedMessage raises before its dispatch.
NotifyRejections == {"precondition", "unsupported", "already-notified"}

\* C18: a notify called on a message whose didNotifyRecipient is already
\* true is rejected before the dispatch: by the check of the flag when the
\* Private API is up on macOS Monterey or newer, and by the checks that come
\* first otherwise. No rejected notify was handed to the Private API.
C18_AlreadyNotifiedRejected ==
    /\ [][mut.pc = "idle" /\ mut'.op = "notify" /\ msg.didNotifyRecipient
          => /\ mut'.pc = "failed"
             /\ mut'.error \in NotifyRejections
             /\ ~PrivateApiDown /\ server.isMinMonterey
                => mut'.error = "already-notified"
             /\ ~mut'.dispatched]_vars
    /\ [](mut.op = "notify" /\ mut.error \in NotifyRejections
          => mut.pc = "failed" /\ ~mut.dispatched)

\* A notify was rejected because the recipient had been notified.
C18_Witness ==
    /\ mut.op = "notify"
    /\ mut.pc = "failed"
    /\ mut.error = "already-notified"
    /\ msg.didNotifyRecipient
    /\ ~mut.dispatched

\* ------------------------------------------------ resolve without a taker

\* No MessagePromise with the correlation key of entry e is pending: none was
\* registered, or the one that was is resolved or rejected.
NoPendingExpectation(e) ==
    \A s \in SendIds :
       ~ /\ promises[s].state = "pending"
         /\ promises[s].chat = e.chat
         /\ promises[s].text = EntryFingerprint(e)
         /\ promises[s].isAttachment = IsAttachmentEntry(e)

\* C19: when the scanner reports a match for an entry and the registry holds
\* no pending promise with the entry's key, the resolve changes nothing: no
\* promise changes its state or its record, and the registry is as it was.
C19_ResolveWithoutPendingIsNoOp ==
    [][\A k \in NewEvents :
          /\ events'[k].type = "message-match"
          /\ NoPendingExpectation(EntryOfTask(events'[k].entry))
          => promises' = promises /\ registry' = registry]_vars

\* A match was reported for the entry of a send whose promise its timer had
\* rejected, and one for the entry a previous run left behind: the resolve
\* for the send's entry found no pending promise.
C19_Witness ==
    /\ HasEvent("message-match", 0)
    /\ \E s \in SendIds : promises[s].state = "rejected" /\ HasEvent("message-match", s)

\* ------------------------------------------------ matched at most once

\* Positions of the events that report a match for entry id.
MatchEventsOf(id) ==
    {k \in 1 .. Len(events) : events[k].type = "message-match" /\ events[k].entry = id}

\* C20: over the whole run, at most one message-match is emitted for a queue
\* entry.
C20_MatchedAtMostOnce ==
    \A id \in EntryIds : Cardinality(MatchEventsOf(id)) <= 1

\* ------------------------------------------ the scanner after a restart

\* Entries a previous run of the server left in the persisted queue: one
\* with the key of PersistedEntry, and one older than the maximum age.
TwinEntry ==
    [id |-> 0 - 1, chat |-> "X", text |-> <<"h", "i">>, tempGuid |-> <<"t", "9">>,
     dateCreated |-> 0 - PersistedAgeMs]

OldAgeMs == MaxAgeMs + 2 * TickMs

OldEntry ==
    [id |-> 0 - 2, chat |-> "X", text |-> <<"h", "i">>, tempGuid |-> <<"t", "8">>,
     dateCreated |-> 0 - OldAgeMs]

ScannerQueues == {<<>>, <<PersistedEntry>>, <<OldEntry>>, <<PersistedEntry, TwinEntry>>}

\* A row from me the database holds when the server starts.
StoredRow(guid) ==
    [guid |-> guid, chat |-> "X", text |-> <<"h", "i">>, fromMe |-> TRUE,
     date |-> 0, transferName |-> <<>>, isSent |-> TRUE]

ScannerStores == {<<>>, <<StoredRow(1)>>, <<StoredRow(1), StoredRow(2)>>}

ScannerInit ==
    /\ LogUnused
    /\ ServerUnused
    /\ ObserverUnused
    /\ AuthUnused
    /\ ExitUnused
    /\ ConfigUnused
    /\ AwaiterUnused
    /\ MutUnused
    /\ clock = 0
    /\ store \in ScannerStores
    /\ sends = [s \in SendIds |-> IdleSend]
    /\ promises = [s \in SendIds |-> NoPromise]
    /\ registry = <<>>
    /\ entries \in ScannerQueues
    /\ tasks = {}
    /\ lastTick = -1
    /\ cache = <<>>
    /\ events = <<>>

ScannerNext ==
    /\ \/ \E s \in SendIds : SendMessageSync(s, "X", OpsText, "apple-script")
       \/ \E s \in SendIds, ok \in BOOLEAN : ActionHandlerSendMessage(s, ok)
       \/ \E s \in SendIds : AwaitPromise(s)
       \/ \E s \in SendIds : PromiseTimeout(s)
       \/ GetEntries
       \/ \E t \in tasks : ExpireEntry(t)
       \/ \E t \in tasks : QueryReturn(t)
       \/ \E t \in tasks : RemoveMatched(t)
       \/ StoreInsert("X", OpsText, TRUE, <<>>)
       \/ Advance
    /\ UNCHANGED <<aw, msg, mut, adds, server, observer, shellVars>>

SpecScanner == ScannerInit /\ [][ScannerNext]_vars

ScannerFairness ==
    /\ WF_coreVars(Advance)
    /\ WF_coreVars(GetEntries)
    /\ WF_coreVars(\E t \in tasks : ExpireEntry(t))
    /\ WF_coreVars(\E t \in tasks : QueryReturn(t))
    /\ WF_coreVars(\E t \in tasks : RemoveMatched(t))
    /\ WF_coreVars(\E s \in SendIds : AwaitPromise(s))
    /\ WF_coreVars(\E s \in SendIds : PromiseTimeout(s))
    /\ WF_coreVars(\E s \in SendIds, ok \in BOOLEAN : ActionHandlerSendMessage(s, ok))

\* The server restarts with an empty database window: what is left in the
\* queue can only be matched by rows that arrive from now on.
RestartInit == ScannerInit /\ store = <<>> /\ Len(entries) <= 1

SpecRestart == RestartInit /\ [][ScannerNext]_vars /\ ScannerFairness

\* The row getMessages returns first for the query of a scanner task.
FirstCandidate(t) == store[Min(Candidates(t.entry, t.now))].guid

\* C21: when the query of an outbox entry finds several candidate rows, the
\* scanner emits exactly one message-match event, carrying the first
\* candidate in date order, and adds no other candidate to the cache.
C21_OnlyFirstCandidateReported ==
    [][\A t \in tasks :
          (t.pc = "query" /\ t \notin tasks' /\ Candidates(t.entry, t.now) # {}) =>
             /\ Cardinality(NewEvents) = 1
             /\ events'[Len(events')].guid = FirstCandidate(t)
             /\ cache' = CacheAdd(cache, FirstCandidate(t))]_vars

MatchAt(k) == k \in 1 .. Len(events) /\ events[k].type = "message-match"

\* C22: a record is matched to at most one outbox entry: of two entries
\* with the same chat and text and a single record, only one is matched.
C22_RecordMatchesOneEntry ==
    \A i, j \in 1 .. Len(events) :
        (MatchAt(i) /\ MatchAt(j) /\ events[i].guid = events[j].guid) =>
            events[i].entry = events[j].entry

\* A registered expectation with the key of entry e that is still pending.
PendingWithKey(e) ==
    {s \in SendIds :
        /\ promises[s].state = "pending"
        /\ \E i \in 1 .. Len(registry) : registry[i] = s
        /\ promises[s].chat = e.chat
        /\ promises[s].text = EntryFingerprint(e)
        /\ promises[s].isAttachment = IsAttachmentEntry(e)}

\* C23: on a hit the scanner emits a matched event for the entry carrying
\* the record, the record's id is in the cache when the event is emitted, a
\* pending expectation with the entry's key is resolved with the record, and
\* the entry is deleted from the queue.
C23_HitHasItsFourEffects ==
    /\ [][\A t \in tasks :
            (t.pc = "query" /\ t \notin tasks' /\ Candidates(t.entry, t.now) # {}) =>
               /\ NewEvents # {}
               /\ events'[Len(events) + 1] =
                     [type |-> "message-match", entry |-> t.entry.id,
                      guid |-> FirstCandidate(t)]
               /\ CacheHas(cache', FirstCandidate(t))
               /\ PendingWithKey(t.entry) # {} =>
                     \E s \in PendingWithKey(t.entry) :
                        /\ promises'[s].state = "resolved"
                        /\ promises'[s].value = FirstCandidate(t)]_vars
    /\ \A id \in EntryIds : HasEvent("message-match", id) ~> ~InQueue(id)

C23_Witness ==
    \E s \in SendIds :
        /\ HasEvent("message-match", s)
        /\ ~InQueue(s)
        /\ promises[s].state = "resolved"
        /\ CacheHas(cache, promises[s].value)
        /\ sends[s].pc = "done"

QueueIds == {PersistedEntry.id, OldEntry.id} \cup SendIds

\* A scanner callback that is removing the entry is in flight.
BeingRemoved(e) ==
    \E t \in tasks : t.entry.id = e.id /\ t.pc \in {"expire", "remove"}

\* C24 as stated: every entry is eventually removed, by a match or by its
\* expiry, also when it was persisted before a restart, and no entry is in
\* the queue more than 60 s and one tick interval after its creation unless
\* its removal is under way.
C24_NoEntryOutlivesMaxAge ==
    \A i \in 1 .. Len(entries) :
        clock > entries[i].dateCreated + MaxAgeMs + TickMs => BeingRemoved(entries[i])

\* C24 amended: every entry is eventually removed, by a match or by its
\* expiry, also when it was persisted before a restart; while the server runs
\* no entry stays in the queue more than 60 s and one tick interval after its
\* creation unless its removal is under way, and an entry that is older than
\* that at the restart is expired by the first tick after it.
C24_EveryEntryLeaves ==
    /\ \A id \in QueueIds :
          InQueue(id) ~>
             (~InQueue(id) /\ (HasEvent("message-timeout", id) \/ HasEvent("message-match", id)))
    /\ [](\A i \in 1 .. Len(entries) :
            (clock > entries[i].dateCreated + MaxAgeMs + TickMs /\ lastTick >= 0) =>
                BeingRemoved(entries[i]))

\* C24 witness: an entry older than 60 s and a tick at the restart was
\* expired, and the entry of a send of this run was expired as well.
C24_Witness ==
    /\ HasEvent("message-timeout", OldEntry.id)
    /\ ~InQueue(OldEntry.id)
    /\ \E s \in SendIds : HasEvent("message-timeout", s) /\ ~InQueue(s)

\* ------------------------------------------------------ the change listener

\* Rows the database comes to hold while the listener runs.
MaxObserved == 2

\* Queries that fail in one run.
MaxFailures == 1

\* Rows with a change timestamp greater than the last processed one, in
\* date order.
RowsAfter(last) ==
    LET S == {i \in 1 .. Len(store) : store[i].date > last}
    IN  FirstN(S, Cardinality(S))

\* The maximum timestamp seen in a tick; the last processed one if none.
MaxSeen(batch, last) ==
    IF batch = {} THEN last
    ELSE store[CHOOSE i \in batch : \A j \in batch : store[j].date <= store[i].date].date

\* A timer tick whose query advances the timestamp as soon as it returns.
ObserverQueryAdvancing(ok) ==
    /\ observer.pc = "idle"
    /\ observer.tick < clock
    /\ ok
    /\ LET rows == RowsAfter(observer.last)
           batch == {rows[k] : k \in 1 .. Len(rows)}
       IN  observer' = [observer EXCEPT !.tick = clock, !.pc = "rows", !.rows = rows,
                                        !.batch = batch,
                                        !.last = MaxSeen(batch, observer.last)]
    /\ UNCHANGED <<coreVars, aw, msg, mut, adds, server, shellVars>>

\* A timer tick: the query for the rows changed since the last processed
\* timestamp. A failed query is logged and the tick is over.
ObserverQuery(ok) ==
    /\ observer.pc = "idle"
    /\ observer.tick < clock
    /\ IF ok
       THEN LET rows == RowsAfter(observer.last)
            IN  observer' = [observer EXCEPT !.tick = clock, !.pc = "rows",
                                             !.rows = rows,
                                             !.batch = {rows[k] : k \in 1 .. Len(rows)}]
       ELSE /\ observer.failures < MaxFailures
            /\ observer' = [observer EXCEPT !.tick = clock, !.failures = @ + 1]
    /\ UNCHANGED <<coreVars, aw, msg, mut, adds, server, shellVars>>

\* One row of the tick: skipped if its identifier is in the cache, added to
\* the cache and emitted as a change otherwise.
ObserverProcess ==
    /\ observer.pc = "rows"
    /\ observer.rows # <<>>
    /\ LET guid == store[Head(observer.rows)].guid
       IN  IF CacheHas(cache, guid)
           THEN /\ observer' = [observer EXCEPT !.rows = Tail(@)]
                /\ UNCHANGED cache
           ELSE /\ observer' = [observer EXCEPT !.rows = Tail(@),
                                                !.emitted = Append(@, guid)]
                /\ cache' = CacheAdd(cache, guid)
    /\ UNCHANGED <<clock, store, sends, promises, registry, entries, tasks, lastTick, events>>
    /\ UNCHANGED <<aw, msg, mut, adds, server, shellVars>>

\* Every row of the tick is processed: the last processed timestamp moves to
\* the maximum seen.
ObserverFinish ==
    /\ observer.pc = "rows"
    /\ observer.rows = <<>>
    /\ observer' = [observer EXCEPT !.pc = "idle", !.batch = {},
                                    !.last = MaxSeen(observer.batch, observer.last)]
    /\ UNCHANGED <<coreVars, aw, msg, mut, adds, server, shellVars>>

\* A rejected getMessages that costs the entry its place in the queue.
QueryFailsRemoving(t) ==
    /\ t \in tasks /\ t.pc = "query"
    /\ observer.failures < MaxFailures
    /\ tasks' = tasks \ {t}
    /\ entries' = RemoveEntry(entries, t.entry.id)
    /\ observer' = [observer EXCEPT !.failures = @ + 1]
    /\ UNCHANGED <<clock, store, sends, promises, registry, lastTick, cache, events>>
    /\ UNCHANGED <<aw, msg, mut, adds, server, shellVars>>

\* The getMessages of a scanner callback rejects: the callback ends there,
\* and the rejection is logged by the process's handler.
QueryFails(t) ==
    /\ t \in tasks /\ t.pc = "query"
    /\ observer.failures < MaxFailures
    /\ tasks' = tasks \ {t}
    /\ observer' = [observer EXCEPT !.failures = @ + 1]
    /\ UNCHANGED <<clock, store, sends, promises, registry, entries, lastTick, cache, events>>
    /\ UNCHANGED <<aw, msg, mut, adds, server, shellVars>>

\* A row from me or from someone else appears in chat X.
ObservedInsert(fromMe) ==
    /\ Len(store) < MaxObserved
    /\ store' = Append(store, NewRow(FreshGuid, "X", OpsText, fromMe, <<>>, TRUE))
    /\ UNCHANGED <<clock, sends, promises, registry, entries, tasks, lastTick, cache, events>>

\* Time moves on when the listener's tick at this time is over as well.
ObserverAdvance ==
    /\ observer.tick = clock
    /\ observer.pc = "idle"
    /\ clock < MaxClockMs \/ Pending \/ RowsAfter(observer.last) # <<>>
    /\ Quiescent
    /\ clock' = clock + TickMs
    /\ UNCHANGED <<store, sends, promises, registry, entries, tasks, lastTick, cache, events>>

ObserverNext ==
    \/ \E ok \in BOOLEAN : ObserverQuery(ok)
    \/ ObserverProcess
    \/ ObserverFinish
    \/ \E t \in tasks : QueryFails(t)
    \/ /\ \/ GetEntries
          \/ \E t \in tasks : ExpireEntry(t)
          \/ \E t \in tasks : QueryReturn(t)
          \/ \E t \in tasks : RemoveMatched(t)
          \/ \E fromMe \in BOOLEAN : ObservedInsert(fromMe)
          \/ ObserverAdvance
       /\ UNCHANGED <<aw, msg, mut, adds, server, observer, shellVars>>

SpecObserver == Init /\ [][ObserverNext]_vars

ObserverFairness ==
    /\ WF_vars(\E ok \in BOOLEAN : ObserverQuery(ok))
    /\ WF_vars(ObserverProcess)
    /\ WF_vars(ObserverFinish)
    /\ WF_vars(ObserverAdvance /\ UNCHANGED <<aw, msg, mut, adds, server, observer, shellVars>>)
    /\ WF_vars(GetEntries /\ UNCHANGED <<aw, msg, mut, adds, server, observer, shellVars>>)
    /\ WF_vars((\E t \in tasks : ExpireEntry(t) \/ QueryReturn(t) \/ RemoveMatched(t))
                  /\ UNCHANGED <<aw, msg, mut, adds, server, observer, shellVars>>)

SpecObserverLive == SpecObserver /\ ObserverFairness

Emitted(guid) == \E k \in 1 .. Len(observer.emitted) : observer.emitted[k] = guid

Matched(guid) == \E k \in 1 .. Len(events) : MatchAt(k) /\ events[k].guid = guid

NewlyEmitted == {k \in 1 .. Len(observer.emitted') : k > Len(observer.emitted)}

\* C25: the change listener never emits a change for a row whose identifier
\* is in the cache; as long as the cache can hold every identifier, so that
\* none is evicted, a row is emitted at most once and a row the scanner
\* matched is not emitted by a later tick of the listener.
C25_CachedRowsAreNotEmitted ==
    [][\A k \in NewlyEmitted :
          LET guid == observer.emitted'[k]
          IN  /\ ~CacheHas(cache, guid)
              /\ Len(store) <= CacheCapacity => (~Emitted(guid) /\ ~Matched(guid))]_vars

\* C25 witness: the scanner matched the only row, and the tick of the
\* listener whose query returned that row is over without emitting it.
C25_Witness ==
    /\ Len(store) = 1
    /\ Matched(store[1].guid)
    /\ CacheHas(cache, store[1].guid)
    /\ observer.pc = "idle"
    /\ observer.last >= store[1].date
    /\ observer.emitted = <<>>

ObservedIds == 1 .. MaxObserved

Polling(s) == sends[s].op = "text" /\ sends[s].pc = "poll"

\* C28: a getMessage that fails inside the awaiter counts as no data: the
\* poll that fails although the row is there sleeps one interval and polls
\* again, or ends with the timeout error if the 30 s are over; a send that
\* polled never fails with another error than the timeout, and never before
\* the 30 s are over; and a poll that ends the send well hands back the row.
C28_FailedFetchIsNoData ==
    /\ [][\A s \in SendIds :
            (Polling(s) /\ sends'[s] # sends[s]) =>
               /\ (HasMessage(sends[s].identifier) /\ sends'[s].pc # "done") =>
                     IF sends[s].waited < MaxWaitMs
                     THEN /\ sends'[s].pc = "poll"
                          /\ sends'[s].nextPoll = clock + PollIntervalMs
                     ELSE sends'[s].pc = "failed" /\ sends'[s].error = "timeout"
               /\ sends'[s].pc = "failed" =>
                     /\ sends'[s].error = "timeout"
                     /\ sends[s].waited >= MaxWaitMs
               /\ sends'[s].pc = "done" =>
                     /\ HasMessage(sends[s].identifier)
                     /\ sends'[s].result = sends[s].identifier]_vars

\* C28 witness: the row was there at a poll that slept, so that fetch had
\* failed, and a later poll ended the send with the row.
C28_Witness ==
    \E s \in SendIds :
        /\ sends[s].op = "text" /\ sends[s].method = "private-api"
        /\ sends[s].pc = "done"
        /\ sends[s].result = sends[s].identifier
        /\ sends[s].waited >= PollIntervalMs
        /\ RowOf(sends[s].result).date < sends[s].nextPoll - PollIntervalMs

InRegistry(s) == \E i \in 1 .. Len(registry) : registry[i] = s

\* A text or attachment send over AppleScript.
NonAuthoritative(s) ==
    sends[s].method = "apple-script" /\ sends[s].op \in {"text", "attachment"}

\* C29: on the AppleScript path the expectation is already registered in
\* the step that dispatches the command; as long as the
\* entry of the send is in the queue the expectation is in the registry, and
\* a match of the scanner for that entry resolves a pending expectation with
\* the entry's key.
C29_RegisteredBeforeDispatch ==
    /\ [][\A s \in SendIds :
            /\ (NonAuthoritative(s) /\ ~sends[s].dispatched /\ sends'[s].dispatched) =>
                  (InRegistry(s) /\ promises[s].state # "none")
            /\ \A k \in NewEvents :
                  (events'[k].type = "message-match" /\ events'[k].entry = s
                     /\ promises[s].state = "pending") =>
                        \E r \in SendIds :
                           /\ promises[r].state = "pending"
                           /\ promises'[r].state = "resolved"
                           /\ promises[r].text = promises[s].text]_vars
    /\ [](\A s \in SendIds :
            (NonAuthoritative(s) /\ (sends[s].dispatched \/ InQueue(s))) =>
                (InRegistry(s) /\ promises[s].state # "none"))

\* C29 witness: the row of an AppleScript text send was matched after the
\* dispatch and the send returned it.
C29_Witness ==
    \E s \in SendIds :
        /\ NonAuthoritative(s)
        /\ sends[s].dispatched
        /\ InRegistry(s)
        /\ HasEvent("message-match", s)
        /\ promises[s].state = "resolved"
        /\ sends[s].pc = "done"
        /\ sends[s].result = promises[s].value

PendingExpectations == {s \in SendIds : promises[s].state = "pending"}

\* Sends started no more than 30 s, and a clock step, ago.
RecentSends ==
    {s \in SendIds :
        sends[s].pc # "idle" /\ clock < sends[s].startedAt + MaxWaitMs + TickMs}

\* C30: every expectation that is pending is eventually resolved or
\* rejected, also the one of a Private API text send, which nothing awaits;
\* it is rejected only once its 30 s are over; and there are never more
\* pending expectations than sends started in the last 30 s (and a clock
\* step).
C30_ExpectationsLeavePending ==
    /\ \A s \in SendIds :
          (promises[s].state = "pending") ~> (promises[s].state \in {"resolved", "rejected"})
    /\ [](\A s \in SendIds :
            promises[s].state = "rejected" => clock >= promises[s].createdAt + MaxWaitMs)
    /\ [](PendingExpectations \subseteq RecentSends
            /\ Cardinality(PendingExpectations) <= Cardinality(RecentSends))

\* C30 witness: a Private API text send was completed by its poll, and the
\* expectation it had registered and never awaited was rejected by its timer.
C30_Witness ==
    \E s \in SendIds :
        /\ sends[s].op = "text" /\ sends[s].method = "private-api"
        /\ sends[s].pc = "done"
        /\ InRegistry(s)
        /\ promises[s].state = "rejected"

\* ------------------------------------------------------ two sends in flight

\* Two operations more than one at a time: the sends of this specification.
PairIds == 1 .. MaxSends + 1

\* The chat and text of a send: two texts in one chat, one text in another.
PairKeys == {<<"X", <<"h", "i">>>>, <<"X", <<"y", "o">>>>, <<"Y", <<"h", "i">>>>}

PairInit ==
    /\ LogUnused
    /\ ServerUnused
    /\ ObserverUnused
    /\ AuthUnused
    /\ ExitUnused
    /\ ConfigUnused
    /\ AwaiterUnused
    /\ MutUnused
    /\ clock = 0
    /\ store = <<>>
    /\ sends = [s \in PairIds |-> IdleSend]
    /\ promises = [s \in PairIds |-> NoPromise]
    /\ registry = <<>>
    /\ entries = <<>>
    /\ tasks = {}
    /\ lastTick = -1
    /\ cache = <<>>
    /\ events = <<>>

\* A row from me with one of the keys appears in the database.
PairInsert(key) ==
    /\ Len(store) < MaxObserved
    /\ store' = Append(store, NewRow(FreshGuid, key[1], key[2], TRUE, <<>>, TRUE))
    /\ UNCHANGED <<clock, sends, promises, registry, entries, tasks, lastTick, cache, events>>

\* Time moves on when the timers that are due have fired and the
\* continuations that are ready have run, for every send of the pair.
PairAdvance ==
    /\ \/ clock < MaxClockMs
       \/ entries # <<>>
       \/ tasks # {}
       \/ \E s \in PairIds : promises[s].state = "pending"
       \/ \E s \in PairIds : sends[s].pc \notin {"idle", "done", "failed"}
    /\ lastTick = clock
    /\ \A t \in tasks : t.now = clock
    /\ \A s \in PairIds :
          /\ ~(promises[s].state = "pending" /\ clock >= promises[s].createdAt + MaxWaitMs)
          /\ sends[s].pc # "dispatch"
          /\ ~(sends[s].pc = "await" /\ promises[s].state # "pending")
    /\ clock' = clock + TickMs
    /\ UNCHANGED <<store, sends, promises, registry, entries, tasks, lastTick, cache, events>>

PairNext ==
    /\ \/ \E s \in PairIds, key \in PairKeys :
             /\ clock = 0
             /\ s = 1 => key = <<"X", <<"h", "i">>>>
             /\ SendMessageSync(s, key[1], key[2], "apple-script")
       \/ \E s \in PairIds, ok \in BOOLEAN : ActionHandlerSendMessage(s, ok)
       \/ \E s \in PairIds : AwaitPromise(s)
       \/ \E s \in PairIds : PromiseTimeout(s)
       \/ GetEntries
       \/ \E t \in tasks : ExpireEntry(t)
       \/ \E t \in tasks : QueryReturn(t)
       \/ \E t \in tasks : RemoveMatched(t)
       \/ \E key \in PairKeys : PairInsert(key)
       \/ PairAdvance
    /\ UNCHANGED <<aw, msg, mut, adds, server, observer, shellVars>>

SpecPair == PairInit /\ [][PairNext]_vars

\* Two sends of the pair with different correlation keys, both registered.
DifferentKeys(s, r) ==
    /\ s # r
    /\ promises[s].state # "none" /\ promises[r].state # "none"
    /\ promises[s].chat # promises[r].chat \/ promises[s].text # promises[r].text

\* The step is about send s: its entry gets an event or leaves the queue,
\* its expectation changes, or the operation ends.
StepOf(s) ==
    \/ \E k \in NewEvents : events'[k].entry = s
    \/ InQueue(s) /\ ~(\E i \in 1 .. Len(entries') : entries'[i].id = s)
    \/ promises'[s] # promises[s]
    \/ sends'[s].pc \in {"done", "failed"} /\ sends[s].pc \notin {"done", "failed"}

\* C31: of two sends in flight with different keys each is resolved only
\* with a row of its own chat and text, and a step in which one of them is
\* matched, expires, times out, fails or returns leaves the expectation and
\* the queue entry of the other as they are.
C31_SendsAreIndependent ==
    /\ [][\A s, r \in PairIds :
            (DifferentKeys(s, r) /\ StepOf(s)) =>
               /\ promises'[r] = promises[r]
               /\ InQueue(r) => \E i \in 1 .. Len(entries') : entries'[i].id = r
               /\ sends'[r] = sends[r]]_vars
    /\ [](\A s \in PairIds :
            promises[s].state = "resolved" =>
               /\ RowOf(promises[s].value).chat = promises[s].chat
               /\ RowOf(promises[s].value).text = promises[s].text)

\* C31 witness: two sends with different keys were in flight together; one
\* was matched and returned its row while the other timed out.
C31_Witness ==
    \E s, r \in PairIds :
        /\ DifferentKeys(s, r)
        /\ sends[s].dispatched /\ sends[r].dispatched
        /\ sends[s].pc = "done"
        /\ RowOf(sends[s].result).text = sends[s].text
        /\ sends[r].pc = "failed" /\ sends[r].error = "timeout"
        /\ HasEvent("message-timeout", r)

PositionOf(id) == CHOOSE i \in 1 .. Len(entries) : entries[i].id = id

\* Callbacks of the tick of t2 for an entry persisted before t2's that will
\* match or expire and have not emitted their event yet.
EarlierUnreported(t2) ==
    {t1 \in tasks :
        /\ t1.now = t2.now
        /\ InQueue(t1.entry.id) /\ InQueue(t2.entry.id)
        /\ PositionOf(t1.entry.id) < PositionOf(t2.entry.id)
        /\ \/ t1.pc = "expire" /\ t2.pc = "expire"
           \/ /\ t1.pc = "query" /\ Candidates(t1.entry, t1.now) # {}
              /\ t2.pc = "query" /\ Candidates(t2.entry, t2.now) # {}}

\* C32: within one tick of the scanner the entries are processed in
\* persisted order: the event of an entry is not emitted while an entry
\* persisted before it, with the same outcome in that tick, still waits for
\* its own.
C32_PersistedOrderWithinTick ==
    [][\A t2 \in tasks :
          (\E k \in NewEvents : events'[k].entry = t2.entry.id) /\ t2 \notin tasks'
              => EarlierUnreported(t2) = {}]_vars

\* ------------------------------------- attachment sends on a given platform

PlatformInit ==
    /\ LogUnused
    /\ AwaiterUnused
    /\ MutUnused
    /\ CoreUnused
    /\ ObserverUnused
    /\ AuthUnused
    /\ ExitUnused
    /\ ConfigUnused
    /\ server \in Servers

PlatformNext ==
    /\ \/ \E s \in SendIds, name \in AttachmentNames, method \in Methods :
             \E isAudioMessage \in BOOLEAN :
                SendAttachmentSync(s, "X", name, isAudioMessage, method)
       \/ \E s \in SendIds : StartMessages(s)
       \/ \E s \in SendIds, ok \in BOOLEAN : ActionHandlerSendAttachment(s, ok)
       \/ \E s \in SendIds : AwaitAttachmentPromise(s, server.isMinMonterey)
       \/ \E s \in SendIds : PromiseTimeout(s)
       \/ \E s \in SendIds, converted \in BOOLEAN :
             \E identifier \in {NoGuid, PrivateGuid(s)} :
                SendAttachmentPrivateApi(s, server.status, converted, identifier)
       \/ \E s \in SendIds, fetchOk \in BOOLEAN : AttachmentPrivateApiPoll(s, fetchOk)
       \/ \E s \in SendIds : ConfirmAttachment(s, server.isMinMonterey)
       \/ GetEntries
       \/ \E t \in tasks : ExpireEntry(t)
       \/ \E t \in tasks : QueryReturn(t)
       \/ \E t \in tasks : RemoveMatched(t)
       \/ \E transferName \in AttachmentNames :
             StoreInsertAttachment("X", InvisibleMediaChar, TRUE, transferName)
       \/ \E s \in SendIds, isSent \in BOOLEAN : PrivateApiDeliverAttachment(s, isSent)
       \/ Advance
    /\ UNCHANGED <<aw, msg, mut, adds, server, observer, shellVars>>

SpecPlatform == PlatformInit /\ [][PlatformNext]_vars

IsAttachmentSend(s) == sends[s].op = "attachment"

\* C33: an attachment send that returned deleted its temporary copy exactly
\* when it went through AppleScript on a macOS below Monterey; on Monterey
\* and later, and for every send over the Private API, the copy is never
\* deleted.
C33_CopyDeletedAfterSend ==
    \A s \in SendIds :
        IsAttachmentSend(s) =>
            /\ sends[s].pc = "done" =>
                  (sends[s].copy = "deleted"
                      <=> (sends[s].method = "apple-script" /\ ~server.isMinMonterey))
            /\ (server.isMinMonterey \/ sends[s].method = "private-api") =>
                  sends[s].copy = "present"

\* C33 witness: an AppleScript attachment send returned its row on a macOS
\* below Monterey, and its copy is deleted.
C33_Witness ==
    \E s \in SendIds :
        /\ IsAttachmentSend(s)
        /\ sends[s].method = "apple-script"
        /\ ~server.isMinMonterey
        /\ sends[s].pc = "done"
        /\ HasEvent("message-match", s)
        /\ sends[s].copy = "deleted"

\* The operation in sends[s] failed before anything was handed to a channel:
\* its method is none of the two, or the Private API was down.
FailedBeforeDispatch(s) ==
    /\ sends[s].op \in {"text", "attachment"}
    /\ sends[s].pc = "failed"
    /\ sends[s].error \in {"invalid-method", "precondition"}
    /\ ~sends[s].dispatched

\* C34: a text or attachment send that failed before dispatching anything
\* (invalid send method, Private API disabled or not connected) has no
\* expectation of its own pending in the registry.
C34_FailedSendLeavesNoExpectation ==
    \A s \in SendIds :
        FailedBeforeDispatch(s) => promises[s].state # "pending"

\* C35: for every queue entry the timeout event and the matched event exclude
\* each other, whatever the interleaving of the scanner's ticks: no entry has
\* both a message-timeout and a message-match in the event log.
C35_TimeoutExcludesMatch ==
    \A id \in EntryIds :
        ~(HasEvent("message-timeout", id) /\ HasEvent("message-match", id))

\* C36: for an audio attachment handed to the Private API, the name in the
\* expectation has the extension of the file that was sent: when the name was
\* rewritten from .mp3 to .caf, the file sent is the .caf file, whether the
\* conversion succeeded or not.
C36_ExpectationNameIsSentFile ==
    \A s \in SendIds :
        /\ IsAttachmentSend(s)
        /\ sends[s].method = "private-api"
        /\ sends[s].dispatched
        /\ EndsWith(sends[s].name, Mp3Ext)
        /\ EndsWith(promises[s].text, CafExt)
        => EndsWith(sends[s].filePath, CafExt)

\* ------------------------------------------------------- the auth middleware

Bearer == <<"B", "e", "a", "r", "e", "r", " ">>

\* Tokens a client may send; the token table holds some of them.
GoodToken == <<"g">>

OtherToken == <<"x">>

AuthTokens == {GoodToken, OtherToken}

\* Values of the Authorization header or URL parameter.
AuthorizationValues ==
    {<<>>, <<"B", "a", "s", "i", "c", " ">> \o GoodToken, GoodToken, Bearer,
     Bearer \o GoodToken, Bearer \o OtherToken, Bearer \o GoodToken \o Bearer \o OtherToken}

AuthorizationInputs == {Absent} \cup {Present(v) : v \in AuthorizationValues}

AuthInit ==
    /\ LogUnused
    /\ ServerUnused
    /\ ObserverUnused
    /\ AwaiterUnused
    /\ MutUnused
    /\ CoreUnused
    /\ ExitUnused
    /\ ConfigUnused
    /\ \E db \in SUBSET AuthTokens : context = [IdleContext EXCEPT !.db = db]

\* a ?? b
Coalesce(a, b) == IF a.present THEN a ELSE b

\* context?.headers?.authorization ?? context.params.Authorization ?? ""
TokenOf(authorization, params) ==
    Coalesce(Coalesce(authorization, params), Present(<<>>)).value

\* fail(msg): context.hasEnded = true; Response.unauthorized(res, 401, msg)
AuthFail(ctx) ==
    [ctx EXCEPT !.pc = "done", !.hasEnded = TRUE, !.responses = Append(@, 401)]

\* token.split("Bearer ")[1]
TokenValue(token) == Split(token, Bearer)[2]

\* AuthMiddleware.middleware up to its await: the token is read from the
\* header or the URL parameter and checked for its Bearer prefix.
Middleware(authorization, params) ==
    /\ context.pc = "idle"
    /\ LET token == TokenOf(authorization, params)
           ctx == [context EXCEPT !.authorization = authorization, !.params = params]
       IN  context' =
              IF Len(token) = 0 THEN AuthFail(ctx)
              ELSE IF ~StartsWith(token, Bearer) THEN AuthFail(ctx)
              ELSE [ctx EXCEPT !.pc = "lookup", !.tokenValue = TokenValue(token)]
    /\ UNCHANGED <<coreVars, aw, msg, mut, adds, server, observer, app, repo>>

\* AuthApi.getToken(db, tokenValue): the row of the token, nothing if the
\* table has none.
GetToken(db, tokenValue) == IF tokenValue \in db THEN Present(tokenValue) ELSE Absent

\* const dbToken = await AuthApi.getToken(...) returns: fail("Invalid
\* Token") or context.auth = dbToken.
GetTokenReturn ==
    /\ context.pc = "lookup"
    /\ LET dbToken == GetToken(context.db, context.tokenValue)
       IN  context' =
              IF ~dbToken.present THEN AuthFail(context)
              ELSE [context EXCEPT !.pc = "done", !.auth = dbToken]
    /\ UNCHANGED <<coreVars, aw, msg, mut, adds, server, observer, app, repo>>

AuthNext ==
    \/ \E authorization \in AuthorizationInputs, params \in AuthorizationInputs :
          Middleware(authorization, params)
    \/ GetTokenReturn

SpecAuth == AuthInit /\ [][AuthNext]_vars

\* The Authorization value of the request: the header, the URL parameter if
\* there is no header, the empty string if there is neither.
AuthorizationOf(ctx) == TokenOf(ctx.authorization, ctx.params)

\* The value starts with the Bearer prefix and what follows the prefix is a
\* token of the table.
BearerOfKnownToken(ctx) ==
    /\ StartsWith(AuthorizationOf(ctx), Bearer)
    /\ SubSeq(AuthorizationOf(ctx), Len(Bearer) + 1, Len(AuthorizationOf(ctx))) \in ctx.db

\* C37: once the middleware is through with a request, an auth value is
\* attached only if the Authorization value starts with "Bearer " and the
\* token after the prefix is in the token table; in every other case the
\* context is marked as ended, exactly one 401 was sent and no auth value is
\* attached.
C37_AuthOnlyForKnownBearerToken ==
    context.pc = "done" =>
        /\ context.auth.present => BearerOfKnownToken(context)
        /\ ~BearerOfKnownToken(context) =>
              /\ context.hasEnded
              /\ context.responses = <<401>>
              /\ ~context.auth.present

\* ---------------------------------------------------------- the exit handler

\* Exit events of one run of the application.
MaxExitEvents == 3

Platforms == {"darwin", "linux"}

\* Server().stopServices() is not part of main.ts: whether it raises the
\* server's isStopping itself is fixed per build and left open here.
ExitInit ==
    /\ LogUnused
    /\ ServerUnused
    /\ ObserverUnused
    /\ AwaiterUnused
    /\ MutUnused
    /\ CoreUnused
    /\ AuthUnused
    /\ ConfigUnused
    /\ \E platform \in Platforms, sets \in BOOLEAN :
          app = [IdleApp EXCEPT !.platform = platform, !.stopSetsIsStopping = sets]

\* await Server().stopServices() is called.
CallStopServices(a, event) ==
    [a EXCEPT !.stopCalls = Append(@, [event |-> event, wasStopping |-> a.isStopping]),
              !.stopping = @ + 1,
              !.isStopping = @ \/ a.stopSetsIsStopping]

\* An exit handler without the isHandlingExit check.
HandleExitUnguarded(a, event) ==
    LET b == [a EXCEPT !.isHandlingExit = TRUE]
    IN  IF ~b.isStopping THEN CallStopServices(b, event)
        ELSE [b EXCEPT !.exited = TRUE]

\* handleExit up to its await: if (isHandlingExit) return; isHandlingExit =
\* true; stopServices unless the server is stopping, else app.exit(0).
HandleExit(a, event) ==
    IF a.isHandlingExit THEN a
    ELSE LET b == [a EXCEPT !.isHandlingExit = TRUE]
         IN  IF ~b.isStopping THEN CallStopServices(b, event)
             ELSE [b EXCEPT !.exited = TRUE]

CanFire == ~app.exited /\ Len(app.fired) < MaxExitEvents

Fired(event) == [app EXCEPT !.fired = Append(@, event)]

\* app.on("before-quit", event => handleExit(event))
BeforeQuit ==
    /\ CanFire
    /\ app' = HandleExit(Fired("before-quit"), "before-quit")
    /\ UNCHANGED <<coreVars, aw, msg, mut, adds, server, observer, context, repo>>

\* app.on("window-all-closed"): handleExit() unless the platform is darwin.
WindowAllClosed ==
    /\ CanFire
    /\ app' = IF app.platform # "darwin"
              THEN HandleExit(Fired("window-all-closed"), "window-all-closed")
              ELSE Fired("window-all-closed")
    /\ UNCHANGED <<coreVars, aw, msg, mut, adds, server, observer, context, repo>>

\* The tray's Close item: click: async () => { await handleExit() }
TrayClose ==
    /\ CanFire
    /\ app' = HandleExit(Fired("tray-close"), "tray-close")
    /\ UNCHANGED <<coreVars, aw, msg, mut, adds, server, observer, context, repo>>

\* stopServices returns to the handler that awaited it: app.exit(0).
StopServicesReturn ==
    /\ app.stopping > 0
    /\ app' = [app EXCEPT !.stopping = @ - 1, !.exited = TRUE]
    /\ UNCHANGED <<coreVars, aw, msg, mut, adds, server, observer, context, repo>>

\* The server starts to stop on its own account (a restart, an update): its
\* isStopping is raised outside the exit handler.
ServerStopping ==
    /\ ~app.exited
    /\ ~app.isStopping
    /\ app' = [app EXCEPT !.isStopping = TRUE]
    /\ UNCHANGED <<coreVars, aw, msg, mut, adds, server, observer, context, repo>>

ExitNext ==
    \/ BeforeQuit
    \/ WindowAllClosed
    \/ TrayClose
    \/ StopServicesReturn
    \/ ServerStopping

SpecExit == ExitInit /\ [][ExitNext]_vars

\* C38: whatever exit events fire, and however they overlap, the exit handler
\* calls stopServices at most once and never while the server is stopping;
\* once a call of the handler has taken the exit in hand, no later event
\* calls stopServices again.
C38_ServicesStoppedAtMostOnce ==
    /\ [](/\ Len(app.stopCalls) <= 1
          /\ \A k \in 1 .. Len(app.stopCalls) : ~app.stopCalls[k].wasStopping)
    /\ [][app.stopCalls # <<>> => app'.stopCalls = app.stopCalls]_vars

\* C38 witness: a second and a third exit event fired while the stopServices
\* of the first was still awaited, and there is one call of stopServices.
C38_Witness ==
    /\ Len(app.fired) = 3
    /\ app.fired[1] = "before-quit"
    /\ app.fired[2] = "tray-close"
    /\ app.fired[3] = "window-all-closed"
    /\ app.platform # "darwin"
    /\ ~app.stopSetsIsStopping
    /\ app.stopping = 1
    /\ Len(app.stopCalls) = 1

\* ------------------------------------------------------ the configuration

\* Calls of setConfig in one run.
MaxSetConfigs == 2

BooleanValue(b) == [NullValue EXCEPT !.type = "boolean", !.b = b]

NumberValue(n) == [NullValue EXCEPT !.type = "number", !.n = n]

StringValue(s) == [NullValue EXCEPT !.type = "string", !.s = s]

DateValue(ms) == [NullValue EXCEPT !.type = "date", !.n = ms]

ConfigNames == {"password", "socket_port"}

ConfigValues ==
    {BooleanValue(b) : b \in BOOLEAN}
        \cup {NumberValue(n) : n \in {0, 1, 42, 0 - 7}}
        \cup {StringValue(s) : s \in {<<>>, <<"a">>, <<"1">>, <<"4", "2">>}}
        \cup {DateValue(5)}

DigitChars == <<"0", "1", "2", "3", "4", "5", "6", "7", "8", "9">>

\* String(n) for an integer n
RECURSIVE DigitsOf(_)
DigitsOf(n) ==
    IF n < 10 THEN <<DigitChars[n + 1]>>
    ELSE DigitsOf(n \div 10) \o <<DigitChars[(n % 10) + 1]>>

NumberToString(n) == IF n < 0 THEN <<"-">> \o DigitsOf(0 - n) ELSE DigitsOf(n)

IsDigit(c) == \E d \in 1 .. 10 : DigitChars[d] = c

\* /^-{0,1}\d+$/.test(input)
IsIntegerLiteral(input) ==
    LET digits == IF Len(input) > 0 /\ input[1] = "-" THEN Tail(input) ELSE input
    IN  Len(digits) > 0 /\ \A i \in 1 .. Len(digits) : IsDigit(digits[i])

\* Number(input) for an integer literal
RECURSIVE DigitsValue(_)
DigitsValue(digits) ==
    IF digits = <<>> THEN 0
    ELSE 10 * DigitsValue(SubSeq(digits, 1, Len(digits) - 1))
            + (CHOOSE d \in 0 .. 9 : DigitChars[d + 1] = digits[Len(digits)])

StringToNumber(input) ==
    IF input[1] = "-" THEN 0 - DigitsValue(Tail(input)) ELSE DigitsValue(input)

\* ServerRepository.convertToDbValue
ConvertToDbValue(input) ==
    IF input.type = "boolean" THEN (IF input.b THEN <<"1">> ELSE <<"0">>)
    ELSE IF input.type = "date" THEN NumberToString(input.n)
    ELSE IF input.type = "number" THEN NumberToString(input.n)
    ELSE input.s

\* ServerRepository.convertFromDbValue
ConvertFromDbValue(input) ==
    IF input = <<"1">> \/ input = <<"0">> THEN BooleanValue(input = <<"1">>)
    ELSE IF IsIntegerLiteral(input) THEN NumberValue(StringToNumber(input))
    ELSE StringValue(input)

HasKey(rows, name) == \E i \in 1 .. Len(rows) : rows[i].name = name

ValueOf(rows, name) == rows[CHOOSE i \in 1 .. Len(rows) : rows[i].name = name].value

\* this.config[name] = value; update or create-and-save of the Config row
Upsert(rows, name, value) ==
    IF HasKey(rows, name)
    THEN [i \in 1 .. Len(rows) |->
             IF rows[i].name = name THEN [rows[i] EXCEPT !.value = value] ELSE rows[i]]
    ELSE Append(rows, [name |-> name, value |-> value])

\* hasConfig(name)
HasConfig(name) == HasKey(repo.config, name)

\* getConfig(name)
GetConfig(name) ==
    IF ~HasKey(repo.config, name) THEN NullValue
    ELSE ConvertFromDbValue(ValueOf(repo.config, name))

ConfigInit ==
    /\ LogUnused
    /\ ServerUnused
    /\ ObserverUnused
    /\ AwaiterUnused
    /\ MutUnused
    /\ CoreUnused
    /\ AuthUnused
    /\ ExitUnused
    /\ ConfigUnused

\* setConfig up to its first await: saniVal is computed and findOne is asked
\* for the row.
SetConfig(name, value) ==
    /\ repo.call.pc \in {"idle", "done", "failed"}
    /\ repo.calls < MaxSetConfigs
    /\ repo' = [repo EXCEPT !.calls = @ + 1, !.before = repo.config,
                            !.call = [pc |-> "write", name |-> name, value |-> value,
                                      saniVal |-> ConvertToDbValue(value)]]
    /\ UNCHANGED <<coreVars, aw, msg, mut, adds, server, observer, context, app>>

\* The database calls of setConfig return: the row is updated or created and
\* then this.config[name] = saniVal, or a call threw and setConfig rejects.
SetConfigWrite(ok) ==
    /\ repo.call.pc = "write"
    /\ repo' =
          IF ok
          THEN [repo EXCEPT !.db = Upsert(@, repo.call.name, repo.call.saniVal),
                            !.config = Upsert(@, repo.call.name, repo.call.saniVal),
                            !.call.pc = "done"]
          ELSE [repo EXCEPT !.call.pc = "failed"]
    /\ UNCHANGED <<coreVars, aw, msg, mut, adds, server, observer, context, app>>

ConfigNext ==
    \/ \E name \in ConfigNames, value \in ConfigValues : SetConfig(name, value)
    \/ \E ok \in BOOLEAN : SetConfigWrite(ok)

SpecConfig == ConfigInit /\ [][ConfigNext]_vars

\* What the caller of setConfig expects back: the value itself, and the
\* milliseconds of a Date.
ExpectedBack(value) == IF value.type = "date" THEN NumberValue(value.n) ELSE value

\* C39: after a setConfig(name, v) that completed, getConfig(name) is v for
\* every boolean, integer and string v (the milliseconds for a Date) and
\* hasConfig(name) is true; after a setConfig whose database write failed, the
\* cache is as the call found it.
C39_ConfigRoundTrip ==
    /\ repo.call.pc = "done" =>
          /\ HasConfig(repo.call.name)
          /\ GetConfig(repo.call.name) = ExpectedBack(repo.call.value)
    /\ repo.call.pc = "failed" => repo.config = repo.before

====
